---- MODULE Spec2Model ----
(***************************************************************************)
(* Noctem wiki core: the relational store (sources, knowledge_chunks), the *)
(* vector index (the ChromaDB collection), trust-weighted retrieval, the   *)
(* token-budgeted context assembler and the citation footer.               *)
(*                                                                         *)
(* Conventions.  Python's None and every other falsy value of an optional  *)
(* field share one model value: "" for an optional string, 0 for an        *)
(* optional integer (the code only tests these fields for truthiness).     *)
(* Floats are exact rationals <<numerator, denominator>>.                  *)
(* A distance of the vector index is counted in units of 1/DistScale.      *)
(***************************************************************************)
EXTENDS Integers, Sequences, FiniteSets, TLC

\* ------------------------------------------------------------------ bounds
MaxSources == 2        \* source rows ever created
MaxUuid == 2           \* chunk rows ever created (uuid4 values ever drawn)
MaxBatch == 2          \* chunks saved by one save_chunks call
MaxEmb == 1            \* embeddings are points 0..MaxEmb on a line
MaxK == 2              \* largest n_results asked of search
MaxResults == 3        \* longest ranked list handed to the assembler
MaxBudget == 5         \* largest max_tokens handed to the assembler
MaxPieces == 4         \* pieces a text handed to the chunker is made of
MaxMinTokens == 2      \* largest min_tokens handed to the chunker
MaxMaxTokens == 2      \* largest max_tokens handed to the chunker
MaxOverlapTokens == 1  \* largest overlap_tokens handed to the chunker
MaxRows == 3           \* chunk rows ever created where the store meets the index
MaxTexts == 4          \* texts handed to one get_embeddings_batch call
MaxIngestRows == 4     \* chunk rows ever created by the ingestion runs

DistScale == 4         \* a distance unit is 1/DistScale

\* --------------------------------------------------------- program constants
TRUST_PERSONAL == 1
TRUST_CURATED == 2
TRUST_WEB == 3
CHARS_PER_TOKEN == 4

TrustLevels == {TRUST_PERSONAL, TRUST_CURATED, TRUST_WEB}
Statuses == {"pending", "processing", "indexed", "failed", "changed"}

None == [none |-> TRUE]     \* Python's None
Some(v) == [value |-> v]    \* an Optional[...] argument that was given

ErrorMessages == {"", "Parse error"}
FileStates == {"missing", "modified", "same"}

SourceIds == 1..MaxSources
MaxEdits == 2
Uuids == 1..MaxUuid
Embeddings == 0..MaxEmb

VARIABLES
    sources,            \* table sources: id -> row
    knowledge_chunks,   \* table knowledge_chunks: chunk_id (uuid) -> row
    next_source_id,     \* next rowid of table sources
    next_uuid,          \* next uuid4 value
    collection,         \* ChromaDB collection: chunk_id -> [source_id, emb]
    pc,                 \* position of the running search() call
    args,               \* arguments of the running search() call
    raw_results,        \* search(): what search_similar returned
    hit,                \* search(): index of the hit being resolved
    chunk,              \* search(): the row get_chunk_by_id returned for this hit
    results,            \* search(): the results list
    raised,             \* search(): an exception escaped the call
    max_tokens,         \* get_context_for_query(): the budget
    context_parts,      \* get_context_for_query(): the formatted parts
    total_tokens,       \* get_context_for_query(): the running total
    context,            \* get_context_for_query(): the returned text
    used,               \* get_context_for_query(): the returned results
    citations,          \* ask(): the citation footer
    verify_result,      \* what the last verify_source call returned, None before the first
    chunk_pc,           \* position of the running chunk_text() call
    chunk_args,         \* arguments of the running chunk_text() call
    text_chunks,        \* chunk_text(): the chunks list
    delete_result,      \* what the last delete_source call returned, None before the first
    index_pc,           \* position of the running add_chunks_to_vectorstore() call
    index_chunks,       \* add_chunks_to_vectorstore(): the chunks it was handed
    batch_pc,           \* position of the running get_embeddings_batch() call
    batch_texts,        \* get_embeddings_batch(): how many texts it was handed
    embeddings,         \* the running call's list of embeddings so far
    embed_raised,       \* the exception that left the last embedding call, "" if none
    http_requests,      \* requests.post calls made by the running call
    files,              \* the file system: the absolute paths of the files on it
    contents,           \* the file system: path -> how often the file was rewritten
    create_path,        \* the path the last create_source call was given, "" before the first
    create_raised,      \* the exception that left the last create_source call, "" if none
    fs_accesses,        \* what the last create_source call did on the file system
    discover_dir,       \* the directory the last discover_new_sources call was given
    new_files,          \* what the last discover_new_sources call returned, None before the first
    answer,             \* ask(): the answer text of the WikiAnswer it returned
    sources_used,       \* ask(): the sources_used of the WikiAnswer it returned
    llm_outcome         \* ask(): what the request of query_llm did, "" if none was made

storeVars == <<sources, knowledge_chunks, next_source_id, next_uuid, collection,
               verify_result>>
searchVars == <<pc, args, raw_results, hit, chunk, results, raised>>
asmVars == <<max_tokens, context_parts, total_tokens, context, used, citations>>
chunkerVars == <<chunk_pc, chunk_args, text_chunks>>
embedVars == <<index_pc, index_chunks, batch_pc, batch_texts, embeddings,
               embed_raised, http_requests>>
registerVars == <<files, contents, create_path, create_raised, fs_accesses, discover_dir, new_files>>
answerVars == <<answer, sources_used, llm_outcome>>
serviceVars == <<delete_result, embedVars, registerVars, answerVars>>
vars == <<storeVars, searchVars, asmVars, chunkerVars, serviceVars>>

\* ------------------------------------------------------------ small helpers
Range(s) == {s[i] : i \in DOMAIN s}

Min(a, b) == IF a < b THEN a ELSE b

Abs(n) == IF n < 0 THEN -n ELSE n

SetMin(S) == CHOOSE x \in S : \A y \in S : x <= y

SetMax(S) == CHOOSE x \in S : \A y \in S : y <= x

\* function f without the keys in S
Without(f, S) == [k \in DOMAIN f \ S |-> f[k]]

\* function f extended with (or overwritten by) g
Plus(f, g) == [k \in DOMAIN f \cup DOMAIN g |-> IF k \in DOMAIN g THEN g[k] ELSE f[k]]

\* rationals as <<numerator, denominator>>, denominators positive
RatMul(x, y) == <<x[1] * y[1], x[2] * y[2]>>
RatLess(x, y) == x[1] * y[2] < y[1] * x[2]
RatEq(x, y) == x[1] * y[2] = y[1] * x[2]
RatLeq(x, y) == ~RatLess(y, x)

\* rows of knowledge_chunks that belong to source_id
ChunkIdsOf(source_id) ==
    {c \in DOMAIN knowledge_chunks : knowledge_chunks[c].source_id = source_id}

\* entries of the collection whose metadata names source_id
EmbeddingIdsOf(source_id) ==
    {c \in DOMAIN collection : collection[c].source_id = source_id}

\* ------------------------------------------------------- relational store
\* ingestion.get_source_by_id: the row as a Source object, or None
get_source_by_id(source_id) ==
    IF source_id \in DOMAIN sources
    THEN [id |-> source_id,
          file_name |-> sources[source_id].file_name,
          trust_level |-> sources[source_id].trust_level,
          status |-> sources[source_id].status,
          chunk_count |-> sources[source_id].chunk_count]
    ELSE None

\* chunking.get_chunk_by_id: the row as a KnowledgeChunk object, or None
get_chunk_by_id(chunk_id) ==
    IF chunk_id \in DOMAIN knowledge_chunks
    THEN [chunk_id |-> chunk_id,
          source_id |-> knowledge_chunks[chunk_id].source_id,
          content |-> knowledge_chunks[chunk_id].content,
          page_or_section |-> knowledge_chunks[chunk_id].page_or_section,
          chunk_index |-> knowledge_chunks[chunk_id].chunk_index,
          token_count |-> knowledge_chunks[chunk_id].token_count]
    ELSE None

\* ------------------------------------------------------------------ paths
\* the directory relative paths are resolved against
CWD == "/w"

Uppercase == "ABCDEFGHIJKLMNOPQRSTUVWXYZ"
Lowercase == "abcdefghijklmnopqrstuvwxyz"

\* str.lower() on one character
lower_char(c) ==
    IF \E i \in 1..Len(Uppercase) : SubSeq(Uppercase, i, i) = c
    THEN LET i == CHOOSE i \in 1..Len(Uppercase) : SubSeq(Uppercase, i, i) = c
         IN  SubSeq(Lowercase, i, i)
    ELSE c

\* str.lower(): character by character, the text taken in halves
RECURSIVE lower(_)
lower(s) ==
    IF Len(s) <= 1 THEN lower_char(s)
    ELSE lower(SubSeq(s, 1, Len(s) \div 2)) \o lower(SubSeq(s, Len(s) \div 2 + 1, Len(s)))

\* str.rfind for one character, positions counted from 1, 0 if there is none
RFind(s, c) ==
    LET at == {j \in 1..Len(s) : SubSeq(s, j, j) = c}
    IN  IF at = {} THEN 0 ELSE CHOOSE j \in at : \A k \in at : k <= j

\* Path.name: the last component
PathName(path) == SubSeq(path, RFind(path, "/") + 1, Len(path))

\* Path.suffix: the name from its last dot on, unless the dot starts or ends
\* the name
PathSuffix(path) ==
    LET n == PathName(path)
        i == RFind(n, ".")
    IN  IF 1 < i /\ i < Len(n) THEN SubSeq(n, i, Len(n)) ELSE ""

\* Path.resolve() where no component is a link: an absolute path is kept, a
\* relative one is put under the working directory
resolve(path) ==
    IF Len(path) > 0 /\ SubSeq(path, 1, 1) = "/" THEN path ELSE CWD \o "/" \o path

\* ingestion.detect_file_type
detect_file_type(file_path) ==
    LET ext == lower(PathSuffix(file_path))
    IN  IF ext = ".pdf" THEN Some("pdf")
        ELSE IF ext \in {".md", ".markdown"} THEN Some("md")
        ELSE IF ext \in {".txt", ".text"} THEN Some("txt")
        ELSE None

\* a registration that refuses a path a document is registered under
CreateRaised_KnownPath(file_path) ==
    IF file_path \notin files THEN "FileNotFoundError"
    ELSE IF detect_file_type(file_path) = None THEN "ValueError"
    ELSE IF \E s \in DOMAIN sources : sources[s].file_path = file_path THEN "IntegrityError"
    ELSE ""

\* a registration that looks at the extension before it looks for the file
CreateRaised_TypeFirst(file_path) ==
    IF detect_file_type(file_path) = None THEN "ValueError"
    ELSE IF file_path \notin files THEN "FileNotFoundError"
    ELSE ""

\* ingestion.create_source, the exception that leaves it for a resolved path:
\* "if not file_path.exists()" comes before "if file_type is None"
CreateRaised(file_path) ==
    IF file_path \notin files THEN "FileNotFoundError"
    ELSE IF detect_file_type(file_path) = None THEN "ValueError"
    ELSE ""

\* ingestion.create_source, what it does on the file system for a resolved
\* path when no title is given: resolve() and exists(), and for a file it
\* accepts compute_file_hash, stat() and the reading of the title
CreateAccesses(file_path) ==
    <<"resolve", "exists">> \o
    (IF CreateRaised(file_path) # "" THEN <<>>
     ELSE <<"open", "stat">> \o
          (IF detect_file_type(file_path) = Some("md") THEN <<"open">>
           ELSE IF detect_file_type(file_path) = Some("pdf") THEN <<"fitz.open">>
           ELSE <<>>))

\* "INSERT INTO sources": the table is created outside the modules modelled
\* here; by the design nothing in it refuses a second row for a path, so the
\* row is stored under the next rowid whatever the table holds
InsertSource(table, rowid, row) == Plus(table, [i \in {rowid} |-> row])

\* the bytes of a file: those it had at the start, or those of its last rewrite
FileBytes(file_path) ==
    IF file_path \in DOMAIN contents THEN contents[file_path] ELSE 0

\* ingestion.compute_file_hash: the SHA-256 of the bytes, taken to tell any
\* two contents apart
compute_file_hash(file_path) == [sha256 |-> FileBytes(file_path)]

\* ingestion.create_source: the two checks, then INSERT ... 'pending'
create_source(file_path, trust_level) ==
    /\ create_path' = file_path
    /\ create_raised' = CreateRaised(resolve(file_path))
    /\ fs_accesses' = CreateAccesses(resolve(file_path))
    /\ IF CreateRaised(resolve(file_path)) = ""
       THEN /\ next_source_id <= MaxSources
            /\ sources' = InsertSource(sources, next_source_id,
                    [file_path |-> resolve(file_path),
                     file_type |-> detect_file_type(resolve(file_path)).value,
                     file_name |-> PathName(resolve(file_path)),
                     trust_level |-> trust_level,
                     file_hash |-> compute_file_hash(resolve(file_path)),
                     status |-> "pending", chunk_count |-> 0,
                     error_message |-> "", last_verified |-> ""])
            /\ next_source_id' = next_source_id + 1
       ELSE UNCHANGED <<sources, next_source_id>>
    /\ UNCHANGED <<knowledge_chunks, next_uuid, collection, searchVars, asmVars, chunkerVars,
                   verify_result, delete_result, embedVars, files, contents, discover_dir,
                   new_files, answerVars>>

\* ingestion: "from noctem.wiki import SUPPORTED_EXTENSIONS"
SUPPORTED_EXTENSIONS == {".pdf", ".md", ".txt"}

\* Path.glob of "*<ext>" or, recursive, "**/*<ext>" in a directory: the
\* files in it (below it, the directory itself included) whose name ends with
\* ext, each as the directory's path followed by the file's path in it
Glob(directory, ext, recursive) ==
    LET root == resolve(directory) \o "/"
        inside(f) == Len(f) > Len(root) /\ SubSeq(f, 1, Len(root)) = root
        rel(f) == SubSeq(f, Len(root) + 1, Len(f))
        ends(f) == /\ Len(PathName(f)) >= Len(ext)
                   /\ SubSeq(f, Len(f) - Len(ext) + 1, Len(f)) = ext
    IN  {directory \o "/" \o rel(f) :
            f \in {f \in files : /\ inside(f)
                                  /\ ends(f)
                                  /\ (recursive \/ RFind(rel(f), "/") = 0)}}

\* ingestion.discover_new_sources, all_files: how often each path is in the list
AllFiles(directory) ==
    LET paths == UNION {Glob(directory, ext, TRUE) : ext \in SUPPORTED_EXTENSIONS}
    IN  [p \in paths |->
            Cardinality({ext \in SUPPORTED_EXTENSIONS : p \in Glob(directory, ext, FALSE)})
            + Cardinality({ext \in SUPPORTED_EXTENSIONS : p \in Glob(directory, ext, TRUE)})]

\* ingestion.discover_new_sources, tracked_paths
TrackedPaths == {sources[s].file_path : s \in DOMAIN sources}

\* ingestion.discover_new_sources: the list it returns, as the number of times
\* each path is in it (the order is the one the file system lists the files in)
discover_new_sources(directory) ==
    /\ discover_dir' = directory
    /\ new_files' = Some([p \in {p \in DOMAIN AllFiles(directory) :
                                    resolve(p) \notin TrackedPaths} |->
                            AllFiles(directory)[p]])
    /\ UNCHANGED <<files, contents, create_path, create_raised, fs_accesses, delete_result,
                   embedVars, answerVars, storeVars, searchVars, asmVars, chunkerVars>>

\* the TextChunk lists handed to save_chunks: chunk_index is 0..N-1 (chunk_text
\* re-indexes before returning)
TextChunkLists(Cs, Ss, Ts) ==
    UNION {{[i \in 1..n |-> [content |-> f[i][1], page_or_section |-> f[i][2],
                              token_count |-> f[i][3], chunk_index |-> i - 1]] :
              f \in [1..n -> Cs \X Ss \X Ts]} : n \in 1..MaxBatch}

\* a save that keys each row by its position in the list, not by a fresh uuid4
save_chunks_KeyedByPosition(source_id, chunks) ==
    /\ source_id \in DOMAIN sources
    /\ knowledge_chunks' = Plus(knowledge_chunks,
            [u \in 1..Len(chunks) |->
                [source_id |-> source_id,
                 content |-> chunks[u].content,
                 page_or_section |-> chunks[u].page_or_section,
                 chunk_index |-> chunks[u].chunk_index,
                 token_count |-> chunks[u].token_count]])
    /\ next_uuid' = next_uuid + Len(chunks)
    /\ UNCHANGED <<sources, next_source_id, collection, searchVars, asmVars, chunkerVars, serviceVars, verify_result>>

\* a save whose INSERT leaves chunk_index to the column default
save_chunks_NoIndex(source_id, chunks) ==
    /\ source_id \in DOMAIN sources
    /\ knowledge_chunks' = Plus(knowledge_chunks,
            [u \in next_uuid..(next_uuid + Len(chunks) - 1) |->
                [source_id |-> source_id,
                 content |-> chunks[u - next_uuid + 1].content,
                 page_or_section |-> chunks[u - next_uuid + 1].page_or_section,
                 chunk_index |-> 0,
                 token_count |-> chunks[u - next_uuid + 1].token_count]])
    /\ next_uuid' = next_uuid + Len(chunks)
    /\ UNCHANGED <<sources, next_source_id, collection, searchVars, asmVars, chunkerVars, serviceVars, verify_result>>

\* chunking.save_chunks: one INSERT per chunk, each under a fresh uuid4, one
\* transaction
save_chunks(source_id, chunks) ==
    /\ source_id \in DOMAIN sources
    /\ knowledge_chunks' = Plus(knowledge_chunks,
            [u \in next_uuid..(next_uuid + Len(chunks) - 1) |->
                [source_id |-> source_id,
                 content |-> chunks[u - next_uuid + 1].content,
                 page_or_section |-> chunks[u - next_uuid + 1].page_or_section,
                 chunk_index |-> chunks[u - next_uuid + 1].chunk_index,
                 token_count |-> chunks[u - next_uuid + 1].token_count]])
    /\ next_uuid' = next_uuid + Len(chunks)
    /\ UNCHANGED <<sources, next_source_id, collection, searchVars, asmVars, chunkerVars, serviceVars, verify_result>>

\* chunking.delete_chunks_for_source
delete_chunks_for_source(source_id) ==
    /\ ChunkIdsOf(source_id) # {}
    /\ knowledge_chunks' = Without(knowledge_chunks, ChunkIdsOf(source_id))
    /\ UNCHANGED <<sources, next_source_id, next_uuid, collection, searchVars, asmVars, chunkerVars, serviceVars, verify_result>>

\* an update that forgets to write chunk_count when it marks a source indexed
StatusUpdate_CountNotWritten(row, status, chunk_count, error_message) ==
    IF status = "failed"
    THEN [row EXCEPT !.status = status, !.error_message = error_message]
    ELSE [row EXCEPT !.status = status]

\* ingestion.update_source_status: the row update of each of the three branches
StatusUpdate(row, status, chunk_count, error_message) ==
    IF status = "indexed"
    THEN [row EXCEPT !.status = status, !.chunk_count = chunk_count,
                     !.error_message = ""]
    ELSE IF status = "failed"
    THEN [row EXCEPT !.status = status, !.error_message = error_message]
    ELSE [row EXCEPT !.status = status]

\* ingestion.update_source_status (chunk_count=None is 0: "chunk_count or 0")
update_source_status(source_id, status, chunk_count, error_message) ==
    /\ source_id \in DOMAIN sources
    /\ sources' = [sources EXCEPT ![source_id] =
                        StatusUpdate(@, status, chunk_count, error_message)]
    /\ UNCHANGED <<knowledge_chunks, next_source_id, next_uuid, collection, searchVars, asmVars, chunkerVars, serviceVars, verify_result>>

\* a verify that moves the status of indexed sources only
VerifyUpdate_IndexedOnly(row, file) ==
    IF file = "missing"
    THEN IF row.status = "indexed"
         THEN [row EXCEPT !.status = "failed", !.error_message = "File not found"]
         ELSE row
    ELSE IF file = "modified"
    THEN IF row.status = "indexed"
         THEN [row EXCEPT !.last_verified = "now", !.status = "changed"]
         ELSE [row EXCEPT !.last_verified = "now"]
    ELSE [row EXCEPT !.last_verified = "now"]

\* a verify that heals: an unchanged file makes the source indexed again
VerifyUpdate_Heals(row, file) ==
    IF file = "missing"
    THEN [row EXCEPT !.status = "failed", !.error_message = "File not found"]
    ELSE IF file = "modified"
    THEN [row EXCEPT !.last_verified = "now", !.status = "changed"]
    ELSE [row EXCEPT !.last_verified = "now", !.status = "indexed"]

\* a verify that clears the error message of an unchanged file
VerifyUpdate_ClearsError(row, file) ==
    IF file = "missing"
    THEN [row EXCEPT !.status = "failed", !.error_message = "File not found"]
    ELSE IF file = "modified"
    THEN [row EXCEPT !.last_verified = "now", !.status = "changed"]
    ELSE [row EXCEPT !.last_verified = "now", !.error_message = ""]

\* ingestion.verify_source, the UPDATEs on the row; file is what the file system
\* shows for source.file_path: "missing", "modified" (hash differs from
\* source.file_hash) or "same"
VerifyUpdate(row, file) ==
    IF file = "missing"
    THEN [row EXCEPT !.status = "failed", !.error_message = "File not found"]
    ELSE IF file = "modified"
    THEN [row EXCEPT !.last_verified = "now", !.status = "changed"]
    ELSE [row EXCEPT !.last_verified = "now"]

\* a verify that reports every file unchanged
VerifyReturn_AlwaysTrue(file) == TRUE

\* ingestion.verify_source, the value returned: True if the file is unchanged
VerifyReturn(file) == file = "same"

\* ingestion.verify_source
verify_source(source_id, file) ==
    /\ source_id \in DOMAIN sources
    /\ sources' = [sources EXCEPT ![source_id] = VerifyUpdate(@, file)]
    /\ verify_result' = Some(VerifyReturn(file))
    /\ UNCHANGED <<knowledge_chunks, next_source_id, next_uuid, collection, searchVars, asmVars, chunkerVars, serviceVars>>

\* ingestion.verify_source: what the call finds at the row's file_path
FileState(source_id) ==
    IF sources[source_id].file_path \notin files THEN "missing"
    ELSE IF compute_file_hash(sources[source_id].file_path) # sources[source_id].file_hash
    THEN "modified"
    ELSE "same"

\* ingestion.verify_source on the file as it is on the disk
VerifyOnDisk(source_id) ==
    /\ source_id \in DOMAIN sources
    /\ verify_source(source_id, FileState(source_id))

\* the file is rewritten with bytes it did not have before
ModifyFile(file_path) ==
    /\ file_path \in files
    /\ FileBytes(file_path) < MaxEdits
    /\ contents' = Plus(contents, [p \in {file_path} |-> FileBytes(file_path) + 1])
    /\ UNCHANGED <<files, create_path, create_raised, fs_accesses, discover_dir, new_files,
                   delete_result, embedVars, answerVars, storeVars, searchVars, asmVars,
                   chunkerVars>>

\* a delete that leaves the chunk rows of the source where they are
DeletedChunkIds_None(source_id) == {}

\* ingestion.delete_source: "DELETE FROM knowledge_chunks WHERE source_id = ?"
DeletedChunkIds(source_id) == ChunkIdsOf(source_id)

\* a delete that reports success whatever it found
DeleteReturn_AlwaysTrue(source_id) == TRUE

\* ingestion.delete_source: "return cursor.rowcount > 0" of the DELETE on sources
DeleteReturn(source_id) == Cardinality({source_id} \cap DOMAIN sources) > 0

\* a delete that also takes the embeddings of the source out of the collection
delete_source_Cascades(source_id) ==
    /\ knowledge_chunks' = Without(knowledge_chunks, ChunkIdsOf(source_id))
    /\ sources' = Without(sources, {source_id})
    /\ collection' = Without(collection, EmbeddingIdsOf(source_id))
    /\ delete_result' = Some(source_id \in DOMAIN sources)
    /\ UNCHANGED <<next_source_id, next_uuid, searchVars, asmVars, chunkerVars, verify_result,
                   embedVars, registerVars, answerVars>>

\* ingestion.delete_source: chunk rows, then the source row, one transaction
\* (get_db commits when the with block is left); an id that names no row
\* deletes nothing and returns False
delete_source(source_id) ==
    /\ knowledge_chunks' = Without(knowledge_chunks, DeletedChunkIds(source_id))
    /\ sources' = Without(sources, {source_id})
    /\ delete_result' = Some(DeleteReturn(source_id))
    /\ UNCHANGED <<next_source_id, next_uuid, collection, searchVars, asmVars, chunkerVars,
                   verify_result, embedVars, registerVars, answerVars>>

\* ------------------------------------------------------------ vector index
\* what requests.post and the reading of its response can do: answer with an
\* embedding, refuse the connection, time out (while connecting: ConnectTimeout,
\* which is a ConnectionError and a Timeout; or while reading), answer with a
\* non-success status (raise_for_status), or fail in any other way
PostOutcomes ==
    {"ok", "ConnectionError", "ConnectTimeout", "ReadTimeout", "HTTPError", "ValueError"}

\* an embedding call that lets the exceptions it does not know pass as they are
get_ollama_embedding_LeaksOther(outcome, vector) ==
    IF outcome = "ok"
    THEN [raised |-> "", message |-> "", embedding |-> vector, posts |-> 1]
    ELSE IF outcome \in {"ConnectionError", "ConnectTimeout"}
    THEN [raised |-> "EmbeddingError", message |-> "Cannot connect to Ollama",
          embedding |-> None, posts |-> 1]
    ELSE IF outcome = "ReadTimeout"
    THEN [raised |-> "EmbeddingError", message |-> "Ollama embedding request timed out",
          embedding |-> None, posts |-> 1]
    ELSE IF outcome = "HTTPError"
    THEN [raised |-> "EmbeddingError", message |-> "Ollama API error",
          embedding |-> None, posts |-> 1]
    ELSE [raised |-> outcome, message |-> "", embedding |-> None, posts |-> 1]

\* an embedding call that tries once more after a timeout
get_ollama_embedding_RetriesTimeout(outcome, vector) ==
    IF outcome = "ok"
    THEN [raised |-> "", message |-> "", embedding |-> vector, posts |-> 1]
    ELSE IF outcome \in {"ConnectionError", "ConnectTimeout"}
    THEN [raised |-> "EmbeddingError", message |-> "Cannot connect to Ollama",
          embedding |-> None, posts |-> 1]
    ELSE IF outcome = "ReadTimeout"
    THEN [raised |-> "EmbeddingError", message |-> "Ollama embedding request timed out",
          embedding |-> None, posts |-> 2]
    ELSE IF outcome = "HTTPError"
    THEN [raised |-> "EmbeddingError", message |-> "Ollama API error",
          embedding |-> None, posts |-> 1]
    ELSE [raised |-> "EmbeddingError", message |-> "Embedding failed",
          embedding |-> None, posts |-> 1]

\* embeddings.get_ollama_embedding: one requests.post, and the except clauses
\* in their order (ConnectionError before Timeout); vector is the embedding an
\* answering service sends
get_ollama_embedding(outcome, vector) ==
    IF outcome = "ok"
    THEN [raised |-> "", message |-> "", embedding |-> vector, posts |-> 1]
    ELSE IF outcome \in {"ConnectionError", "ConnectTimeout"}
    THEN [raised |-> "EmbeddingError", message |-> "Cannot connect to Ollama",
          embedding |-> None, posts |-> 1]
    ELSE IF outcome = "ReadTimeout"
    THEN [raised |-> "EmbeddingError", message |-> "Ollama embedding request timed out",
          embedding |-> None, posts |-> 1]
    ELSE IF outcome = "HTTPError"
    THEN [raised |-> "EmbeddingError", message |-> "Ollama API error",
          embedding |-> None, posts |-> 1]
    ELSE [raised |-> "EmbeddingError", message |-> "Embedding failed",
          embedding |-> None, posts |-> 1]

\* embeddings.get_embeddings_batch, up to the loop
BatchStart(n) ==
    /\ batch_pc = "idle"
    /\ batch_texts' = n
    /\ embeddings' = <<>>
    /\ embed_raised' = ""
    /\ http_requests' = 0
    /\ batch_pc' = IF n = 0 THEN "returned" ELSE "embedding"
    /\ UNCHANGED <<index_pc, index_chunks, delete_result, registerVars, answerVars, storeVars, searchVars, asmVars,
                   chunkerVars>>

\* embeddings.get_embeddings_batch, loop body: the call for the next text; an
\* exception of it leaves the loop and the function
BatchEmbed(outcome, vector) ==
    /\ batch_pc = "embedding"
    /\ LET r == get_ollama_embedding(outcome, vector)
       IN  /\ http_requests' = http_requests + r.posts
           /\ embed_raised' = r.raised
           /\ IF r.raised # ""
              THEN /\ batch_pc' = "raised"
                   /\ UNCHANGED embeddings
              ELSE /\ embeddings' = Append(embeddings, r.embedding)
                   /\ batch_pc' = IF Len(embeddings) + 1 = batch_texts
                                  THEN "returned" ELSE "embedding"
    /\ UNCHANGED <<batch_texts, index_pc, index_chunks, delete_result, registerVars, answerVars, storeVars,
                   searchVars, asmVars, chunkerVars>>

\* a metadata record that leaves chunk_index at 0
ChunkMetadata_NoOrdinal(chunk_) == [source_id |-> chunk_.source_id, chunk_index |-> 0]

\* embeddings.add_chunks_to_vectorstore: metadatas.append({...}), the keys that
\* are read again
ChunkMetadata(chunk_) ==
    [source_id |-> chunk_.source_id, chunk_index |-> chunk_.chunk_index]

\* what collection.add stores for one id
CollectionEntry(chunk_, embedding) ==
    [source_id |-> ChunkMetadata(chunk_).source_id,
     chunk_index |-> ChunkMetadata(chunk_).chunk_index,
     emb |-> embedding]

\* chunking.get_chunks_for_source: the rows of the source "ORDER BY chunk_index",
\* rows of equal chunk_index in any order
get_chunks_for_source(source_id) ==
    LET ids == ChunkIdsOf(source_id)
        n == Cardinality(ids)
    IN  {[i \in 1..n |-> get_chunk_by_id(h[i])] :
            h \in {h \in [1..n -> ids] :
                      \A i, j \in 1..n :
                          i < j => /\ h[i] # h[j]
                                   /\ knowledge_chunks[h[i]].chunk_index
                                        <= knowledge_chunks[h[j]].chunk_index}}

\* embeddings.add_chunks_to_vectorstore, up to the loop, handed the chunks of
\* one source that is not in the index ("if not chunks: return 0")
IndexStart(source_id) ==
    /\ index_pc = "idle"
    /\ ChunkIdsOf(source_id) # {}
    /\ ChunkIdsOf(source_id) \cap DOMAIN collection = {}
    /\ index_chunks' \in get_chunks_for_source(source_id)
    /\ embeddings' = <<>>
    /\ embed_raised' = ""
    /\ http_requests' = 0
    /\ index_pc' = "embedding"
    /\ UNCHANGED <<batch_pc, batch_texts, delete_result, registerVars, answerVars, storeVars, searchVars, asmVars,
                   chunkerVars>>

\* models.KnowledgeChunk: chunk_id of an object that was never saved (the
\* default "", which "not chunk.chunk_id" takes for missing)
NoChunkId == 0

\* embeddings.add_chunks_to_vectorstore, up to the loop, handed the chunks of
\* one source of which the one at position k has no chunk_id
IndexStartUnsaved(source_id, k) ==
    /\ index_pc = "idle"
    /\ ChunkIdsOf(source_id) \cap DOMAIN collection = {}
    /\ \E cs \in get_chunks_for_source(source_id) :
            /\ k \in DOMAIN cs
            /\ index_chunks' = [cs EXCEPT ![k].chunk_id = NoChunkId]
    /\ embeddings' = <<>>
    /\ embed_raised' = ""
    /\ http_requests' = 0
    /\ index_pc' = "embedding"
    /\ UNCHANGED <<batch_pc, batch_texts, delete_result, registerVars, answerVars, storeVars, searchVars, asmVars,
                   chunkerVars>>

\* embeddings.add_chunks_to_vectorstore, loop body, "if not chunk.chunk_id:
\* raise ValueError": the function is left before the chunk is embedded
IndexMissingId ==
    /\ index_pc = "embedding"
    /\ Len(embeddings) < Len(index_chunks)
    /\ index_chunks[Len(embeddings) + 1].chunk_id = NoChunkId
    /\ embed_raised' = "ValueError"
    /\ index_pc' = "idle"
    /\ index_chunks' = <<>>
    /\ embeddings' = <<>>
    /\ UNCHANGED <<http_requests, batch_pc, batch_texts, delete_result, registerVars, answerVars,
                   storeVars, searchVars, asmVars, chunkerVars>>

\* a loop body that adds every vector to the collection as soon as it has it
IndexEmbed_AddsAsItGoes(outcome, vector) ==
    /\ index_pc = "embedding"
    /\ Len(embeddings) < Len(index_chunks)
    /\ index_chunks[Len(embeddings) + 1].chunk_id # NoChunkId
    /\ LET r == get_ollama_embedding(outcome, vector)
       IN  /\ http_requests' = http_requests + r.posts
           /\ embed_raised' = r.raised
           /\ IF r.raised # ""
              THEN /\ index_pc' = "idle"
                   /\ index_chunks' = <<>>
                   /\ embeddings' = <<>>
                   /\ UNCHANGED collection
              ELSE /\ embeddings' = Append(embeddings, r.embedding)
                   /\ collection' = Plus(collection,
                            [c \in {index_chunks[Len(embeddings) + 1].chunk_id} |->
                                CollectionEntry(index_chunks[Len(embeddings) + 1],
                                                r.embedding)])
                   /\ UNCHANGED <<index_pc, index_chunks>>
    /\ UNCHANGED <<batch_pc, batch_texts, delete_result, registerVars, answerVars, sources,
                   knowledge_chunks, next_source_id, next_uuid, verify_result, searchVars,
                   asmVars, chunkerVars>>

\* embeddings.add_chunks_to_vectorstore, loop body: the embedding of the next
\* chunk, which has a chunk_id; an exception of get_ollama_embedding leaves the
\* function before collection.add
IndexEmbed(outcome, vector) ==
    /\ index_pc = "embedding"
    /\ Len(embeddings) < Len(index_chunks)
    /\ index_chunks[Len(embeddings) + 1].chunk_id # NoChunkId
    /\ LET r == get_ollama_embedding(outcome, vector)
       IN  /\ http_requests' = http_requests + r.posts
           /\ embed_raised' = r.raised
           /\ IF r.raised # ""
              THEN /\ index_pc' = "idle"
                   /\ index_chunks' = <<>>
                   /\ embeddings' = <<>>
              ELSE /\ embeddings' = Append(embeddings, r.embedding)
                   /\ UNCHANGED <<index_pc, index_chunks>>
    /\ UNCHANGED <<batch_pc, batch_texts, delete_result, registerVars, answerVars, storeVars, searchVars, asmVars,
                   chunkerVars>>

\* embeddings.add_chunks_to_vectorstore, after the loop: collection.add
IndexAdd ==
    /\ index_pc = "embedding"
    /\ Len(embeddings) = Len(index_chunks)
    /\ collection' = Plus(collection,
            [c \in {index_chunks[i].chunk_id : i \in DOMAIN index_chunks} |->
                LET i == CHOOSE i \in DOMAIN index_chunks : index_chunks[i].chunk_id = c
                IN  CollectionEntry(index_chunks[i], embeddings[i])])
    /\ index_pc' = "idle"
    /\ index_chunks' = <<>>
    /\ embeddings' = <<>>
    /\ UNCHANGED <<batch_pc, batch_texts, embed_raised, http_requests, delete_result,
                   registerVars, answerVars, sources, knowledge_chunks, next_source_id, next_uuid, verify_result,
                   searchVars, asmVars, chunkerVars>>

\* embeddings.add_chunks_to_vectorstore as one step, for the rows of one source
\* that are not indexed yet and a service that answers every request;
\* embedding[c] is what get_ollama_embedding returned for chunk c
add_chunks_to_vectorstore(source_id, embedding) ==
    /\ DOMAIN embedding = ChunkIdsOf(source_id) \ DOMAIN collection
    /\ DOMAIN embedding # {}
    /\ collection' = Plus(collection,
            [c \in DOMAIN embedding |->
                CollectionEntry(get_chunk_by_id(c), embedding[c])])
    /\ UNCHANGED <<sources, knowledge_chunks, next_source_id, next_uuid, searchVars, asmVars, chunkerVars, serviceVars, verify_result>>

\* embeddings.delete_source_embeddings
delete_source_embeddings(source_id) ==
    /\ EmbeddingIdsOf(source_id) # {}
    /\ collection' = Without(collection, EmbeddingIdsOf(source_id))
    /\ UNCHANGED <<sources, knowledge_chunks, next_source_id, next_uuid, searchVars, asmVars, chunkerVars, serviceVars, verify_result>>

\* ---------------------------------------------------------------- retrieval
\* embeddings.search_similar: "similarity = 1.0 / (1.0 + distance)"
Similarity(distance) == <<DistScale, DistScale + distance>>

\* embeddings.search_similar: "if source_ids: where_filter = {$in: source_ids}"
WhereFilter(source_ids) ==
    IF source_ids # None /\ source_ids.value # {} THEN source_ids ELSE None

\* collection.query(query_embeddings, n_results, where): the n_results entries
\* nearest to q among those the where filter admits, nearest first; entries at
\* equal distance come in any order
Query(q, n_results, where) ==
    LET cands == {c \in DOMAIN collection :
                    where = None \/ collection[c].source_id \in where.value}
        dist(c) == Abs(collection[c].emb - q)
        m == Min(n_results, Cardinality(cands))
    IN {h \in [1..m -> cands] :
          /\ \A i, j \in 1..m : i < j => h[i] # h[j] /\ dist(h[i]) <= dist(h[j])
          /\ \A c \in cands \ Range(h) : \A i \in 1..m : dist(h[i]) <= dist(c)}

\* embeddings.search_similar: the (chunk_id, similarity, metadata) tuples
search_similar(q, n_results, source_ids) ==
    {[i \in DOMAIN h |->
        [chunk_id |-> h[i],
         similarity |-> Similarity(Abs(collection[h[i]].emb - q)),
         metadata |-> [source_id |-> collection[h[i]].source_id]]] :
     h \in Query(q, n_results, WhereFilter(source_ids))}

\* a weight that grows with the level instead of shrinking
trust_weight_NotInverted(r) ==
    IF r.source # None THEN <<r.source.trust_level, TRUST_WEB>> ELSE <<1, 1>>

\* SearchResult.trust_weight
trust_weight(r) == IF r.source # None THEN <<1, r.source.trust_level>> ELSE <<1, 1>>

\* SearchResult.weighted_score
weighted_score(r) == RatMul(r.similarity_score, trust_weight(r))

\* list.sort(key=weighted_score, reverse=True): stable, highest first
RECURSIVE SortByWeightedScore(_)
SortByWeightedScore(rs) ==
    IF rs = <<>> THEN <<>>
    ELSE LET front == SortByWeightedScore(SubSeq(rs, 1, Len(rs) - 1))
             r == rs[Len(rs)]
             \* r goes after every element whose score is at least its own
             k == Cardinality({i \in DOMAIN front :
                                 RatLeq(weighted_score(r), weighted_score(front[i]))})
         IN SubSeq(front, 1, k) \o <<r>> \o SubSeq(front, k + 1, Len(front))

\* a search that returns the top n_results without sorting them
Ranked_Unsorted(rs, n_results) == SubSeq(rs, 1, Min(n_results, Len(rs)))

\* search: "results.sort(...); return results[:n_results]"
Ranked(rs, n_results) ==
    SubSeq(SortByWeightedScore(rs), 1, Min(n_results, Len(rs)))

\* search: "if not chunk: continue"
ChunkMissing(c) == c = None

\* a search that forgets the check of the source row
SourceMissing_Unchecked(src) == FALSE

\* search: "if not source: continue"
SourceMissing(src) == src = None

\* a trust filter that takes the levels the wrong way round
TrustFiltered_Inverted(src, trust_level) ==
    trust_level # None /\ src.trust_level < trust_level.value

\* search: "if trust_level is not None and source.trust_level > trust_level"
TrustFiltered(src, trust_level) ==
    trust_level # None /\ src.trust_level > trust_level.value

\* search: citation_ref = file_name [+ ", " + page_or_section]
CitationRef(c, src) ==
    IF c.page_or_section # "" THEN src.file_name \o ", " \o c.page_or_section
    ELSE src.file_name

\* search, up to the loop: the call of search_similar with n_results * 2
Search(n_results, trust_level, source_ids) ==
    /\ pc = "idle"
    /\ \E q \in Embeddings :
         raw_results' \in search_similar(q, n_results * 2, source_ids)
    /\ args' = [n_results |-> n_results, trust_level |-> trust_level,
                source_ids |-> source_ids]
    /\ hit' = 1
    /\ chunk' = None
    /\ results' = <<>>
    /\ raised' = ""
    /\ pc' = "get_chunk"
    /\ UNCHANGED <<storeVars, asmVars, chunkerVars, serviceVars>>

\* search, loop body: chunk = get_chunk_by_id(chunk_id)
GetChunk ==
    /\ pc = "get_chunk"
    /\ hit <= Len(raw_results)
    /\ LET c == get_chunk_by_id(raw_results[hit].chunk_id)
       IN IF ChunkMissing(c)
          THEN /\ hit' = hit + 1
               /\ UNCHANGED <<chunk, pc>>
          ELSE /\ chunk' = c
               /\ pc' = "get_source"
               /\ UNCHANGED hit
    /\ UNCHANGED <<args, raw_results, results, raised, storeVars, asmVars, chunkerVars, serviceVars>>

\* search, rest of the loop body for a source that was looked up: the trust
\* filter and results.append
KeepOrFilter(src) ==
    IF TrustFiltered(src, args.trust_level)
    THEN UNCHANGED results
    ELSE results' = Append(results,
                        [chunk |-> chunk, source |-> src,
                         similarity_score |-> raw_results[hit].similarity,
                         citation_ref |-> CitationRef(chunk, src)])

\* search, loop body: source = get_source_by_id(chunk.source_id), then the
\* filter and the append; reading a field of None raises AttributeError, which
\* nothing in search catches
GetSource ==
    /\ pc = "get_source"
    /\ LET src == IF chunk = None THEN None ELSE get_source_by_id(chunk.source_id)
       IN IF chunk # None /\ SourceMissing(src)
          THEN /\ hit' = hit + 1
               /\ pc' = "get_chunk"
               /\ UNCHANGED <<results, raised>>
          ELSE IF chunk = None \/ src = None
          THEN /\ raised' = "AttributeError"
               /\ pc' = "done"
               /\ UNCHANGED <<hit, results>>
          ELSE /\ KeepOrFilter(src)
               /\ hit' = hit + 1
               /\ pc' = "get_chunk"
               /\ UNCHANGED raised
    /\ chunk' = None
    /\ UNCHANGED <<args, raw_results, storeVars, asmVars, chunkerVars, serviceVars>>

\* search, after the loop: sort and return the top n_results
SearchReturn ==
    /\ pc = "get_chunk"
    /\ hit > Len(raw_results)
    /\ results' = Ranked(results, args.n_results)
    /\ pc' = "done"
    /\ UNCHANGED <<args, raw_results, hit, chunk, raised, storeVars, asmVars, chunkerVars, serviceVars>>

\* ---------------------------------------------------------------- assembler
\* an estimate that rounds up
estimate_tokens_RoundsUp(text) == (Len(text) + CHARS_PER_TOKEN - 1) \div CHARS_PER_TOKEN

\* chunking.estimate_tokens, and "len(context) // 4" in ask
estimate_tokens(text) == Len(text) \div CHARS_PER_TOKEN

\* get_context_for_query: "result.chunk.token_count or (len(chunk_text) // 4)"
chunk_tokens(r) ==
    IF r.chunk.token_count # 0 THEN r.chunk.token_count
    ELSE Len(r.chunk.content) \div 4

\* a budget test that looks at the total before the chunk is added
OverBudget_BeforeAdding(total, tokens, budget) == total > budget

\* get_context_for_query: "if total_tokens + chunk_tokens > max_tokens: break"
OverBudget(total, tokens, budget) == total + tokens > budget

\* a marker numbered from 0 (enumerate without start=1)
FormatPart_ZeroBased(i, r) ==
    "[" \o ToString(i - 1) \o "] Source: " \o r.citation_ref \o "\n"
        \o r.chunk.content \o "\n"

\* get_context_for_query: f"[{i}] Source: {result.citation_ref}\n{chunk_text}\n"
FormatPart(i, r) ==
    "[" \o ToString(i) \o "] Source: " \o r.citation_ref \o "\n"
        \o r.chunk.content \o "\n"

\* a loop that passes over a result that does not fit and goes on (continue
\* instead of break)
RECURSIVE ContextLoop_Continue(_, _, _, _, _)
ContextLoop_Continue(rs, i, parts, total, budget) ==
    IF i > Len(rs) THEN [parts |-> parts, total |-> total]
    ELSE IF total + (IF rs[i].chunk.token_count # 0 THEN rs[i].chunk.token_count
                     ELSE Len(rs[i].chunk.content) \div 4) > budget
    THEN ContextLoop_Continue(rs, i + 1, parts, total, budget)
    ELSE ContextLoop_Continue(rs, i + 1,
            Append(parts, "[" \o ToString(i) \o "] Source: " \o rs[i].citation_ref
                              \o "\n" \o rs[i].chunk.content \o "\n"),
            total + (IF rs[i].chunk.token_count # 0 THEN rs[i].chunk.token_count
                     ELSE Len(rs[i].chunk.content) \div 4),
            budget)

\* get_context_for_query: the loop over enumerate(results, start=1), from index i
\* with the parts and the total so far
RECURSIVE ContextLoop(_, _, _, _, _)
ContextLoop(rs, i, parts, total, budget) ==
    IF i > Len(rs) THEN [parts |-> parts, total |-> total]
    ELSE IF OverBudget(total, chunk_tokens(rs[i]), budget)
    THEN [parts |-> parts, total |-> total]
    ELSE ContextLoop(rs, i + 1, Append(parts, FormatPart(i, rs[i])),
                     total + chunk_tokens(rs[i]), budget)

\* str.join
RECURSIVE Join(_, _)
Join(parts, sep) ==
    IF parts = <<>> THEN ""
    ELSE IF Len(parts) = 1 THEN parts[1]
    ELSE parts[1] \o sep \o Join(Tail(parts), sep)

\* get_context_for_query after its call of search (n_chunks and trust_level are
\* the n_results and trust_level of that call, source_ids is not passed)
GetContextForQuery(budget) ==
    /\ pc = "done"
    /\ raised = ""
    /\ args.source_ids = None
    /\ LET loop == ContextLoop(results, 1, <<>>, 0, budget)
       IN /\ context_parts' = loop.parts
          /\ total_tokens' = loop.total
          /\ context' = Join(loop.parts, "\n---\n")
          /\ used' = SubSeq(results, 1, Len(loop.parts))
    /\ max_tokens' = budget
    /\ pc' = "assembled"
    /\ UNCHANGED <<args, raw_results, hit, chunk, results, raised,
                   citations, storeVars, chunkerVars, serviceVars>>

\* retrieval.format_citation
format_citation(c, src, index) ==
    Join(<<"[" \o ToString(index) \o "]">>
            \o (IF src # None /\ src.file_name # "" THEN <<src.file_name>> ELSE <<>>)
            \o (IF c.page_or_section # "" THEN <<c.page_or_section>> ELSE <<>>),
         " ")

\* a footer numbered from 0 (enumerate without start=1)
format_citations_footer_ZeroBased(rs) ==
    IF rs = <<>> THEN ""
    ELSE Join(<<"---">> \o [i \in DOMAIN rs |->
                                format_citation(rs[i].chunk, rs[i].source, i - 1)],
              "\n")

\* retrieval.format_citations_footer
format_citations_footer(rs) ==
    IF rs = <<>> THEN ""
    ELSE Join(<<"---">> \o [i \in DOMAIN rs |-> format_citation(rs[i].chunk, rs[i].source, i)],
              "\n")

\* the call returns to its caller; the next call starts from scratch
Return ==
    /\ pc \in {"done", "answered"}
    /\ pc' = "idle"
    /\ args' = None
    /\ raw_results' = <<>>
    /\ hit' = 0
    /\ chunk' = None
    /\ results' = <<>>
    /\ raised' = ""
    /\ max_tokens' = 0
    /\ context_parts' = <<>>
    /\ total_tokens' = 0
    /\ context' = ""
    /\ used' = <<>>
    /\ citations' = ""
    /\ UNCHANGED <<storeVars, chunkerVars, serviceVars>>

\* ----------------------------------------------------------------- chunker
MIN_CHUNK_TOKENS == 300
MAX_CHUNK_TOKENS == 1000
OVERLAP_TOKENS == 100

Whitespace == {" ", "\n", "\t"}       \* what str.strip() and \s take away
SentenceEnds == {".", "!", "?"}
Digits == {"0", "1", "2", "3", "4", "5", "6", "7", "8", "9"}

\* Python's s[i], s[a:b] and s[:position] on positions counted from 0
At(s, i) == SubSeq(s, i + 1, i + 1)
Slice(s, a, b) == SubSeq(s, a + 1, b)
Prefix(s, position) ==
    IF position < 0
    THEN Slice(s, 0, IF Len(s) + position > 0 THEN Len(s) + position ELSE 0)
    ELSE Slice(s, 0, position)

\* s[-n:] for n > 0
Suffix(s, n) == IF n >= Len(s) THEN s ELSE Slice(s, Len(s) - n, Len(s))

\* chunking.tokens_to_chars
tokens_to_chars(tokens) == tokens * CHARS_PER_TOKEN

\* str.strip()
strip(s) ==
    LET n == Len(s)
        ink(i) == At(s, i) \notin Whitespace
    IN  IF \A i \in 0..(n - 1) : ~ink(i)
        THEN ""
        ELSE LET first == CHOOSE i \in 0..(n - 1) :
                                ink(i) /\ \A j \in 0..(i - 1) : ~ink(j)
                 last == CHOOSE i \in 0..(n - 1) :
                                ink(i) /\ \A j \in (i + 1)..(n - 1) : ~ink(j)
             IN  Slice(s, first, last + 1)

\* sub in s
Contains(s, sub) ==
    \E j \in 1..(Len(s) - Len(sub) + 1) : SubSeq(s, j, j + Len(sub) - 1) = sub

\* a query_llm that answers a failed request with no text
query_llm_EmptyOnError(outcome, response) ==
    IF outcome = "ok" THEN strip(response) ELSE ""

\* query.query_llm: the stripped response, or for a failed request (the
\* except clauses in their order) the text it returns in its place; a failure
\* other than a refused connection or a timeout is reported with its own text
\* (the back quotes of the texts are written as quotes here)
query_llm(outcome, response) ==
    IF outcome = "ok" THEN strip(response)
    ELSE IF outcome \in {"ConnectionError", "ConnectTimeout"}
    THEN "Error: Cannot connect to Ollama. Make sure it's running: 'ollama serve'"
    ELSE IF outcome = "ReadTimeout"
    THEN "Error: LLM request timed out. Try a shorter query or check Ollama."
    ELSE "Error: " \o outcome

\* query.ask: the reply when get_context_for_query returned no context
NoSourcesReply ==
    "I don't have any sources in my knowledge base yet. "
    \o "Add documents to 'data/sources/' and run 'noctem wiki ingest'."

\* query.WikiAnswer.has_answer: the text it looks for
EscapePhrase == "don't have enough information"

\* a has_answer that compares the text as it is written
has_answer_CaseSensitive(answer_) ==
    answer_ # "" /\ ~Contains(answer_, EscapePhrase)

\* query.WikiAnswer.has_answer
has_answer(answer_) ==
    answer_ # "" /\ ~Contains(lower(answer_), EscapePhrase)

\* ask, after get_context_for_query: "if not context" the fixed reply without
\* sources and citations, else what query_llm returns for the prompt, the
\* footer over the results get_context_for_query returned, and those results
Ask(outcome, response) ==
    /\ pc = "assembled"
    /\ IF context = ""
       THEN /\ answer' = NoSourcesReply
            /\ sources_used' = <<>>
            /\ citations' = ""
            /\ llm_outcome' = ""
       ELSE /\ answer' = query_llm(outcome, response)
            /\ citations' = format_citations_footer(used)
            /\ sources_used' = used
            /\ llm_outcome' = outcome
    /\ pc' = "answered"
    /\ UNCHANGED <<args, raw_results, hit, chunk, results, raised,
                   max_tokens, context_parts, total_tokens, context, used, storeVars, chunkerVars,
                   delete_result, embedVars, registerVars>>

\* the maximal run of whitespace around the whitespace at position i
RunFirst(s, i) ==
    CHOOSE j \in 0..i :
        /\ \A k \in j..i : At(s, k) \in Whitespace
        /\ j = 0 \/ At(s, j - 1) \notin Whitespace

RunLast(s, i) ==
    CHOOSE j \in i..(Len(s) - 1) :
        /\ \A k \in i..j : At(s, k) \in Whitespace
        /\ j = Len(s) - 1 \/ At(s, j + 1) \notin Whitespace

\* re.finditer gives its matches left to right: the <<start, end>> pairs of S
\* in the order of their starts
InOrder(S) ==
    [k \in 1..Cardinality(S) |->
        CHOOSE m \in S : Cardinality({x \in S : x[1] < m[1]}) = k - 1]

NonEmpty(p) == p[1] # ""

\* re.finditer(r'\n\s*\n', text): in every run of whitespace with two newlines
\* or more, from its first newline through its last
ParagraphBreaks(text) ==
    LET nl == {i \in 0..(Len(text) - 1) : At(text, i) = "\n"}
        peers(i) == {j \in nl : RunFirst(text, j) = RunFirst(text, i)}
    IN  InOrder({<<i, SetMax(peers(i)) + 1>> :
                    i \in {i \in nl : i = SetMin(peers(i)) /\ peers(i) # {i}}})

\* chunking.split_into_paragraphs: (paragraph, start_position) pairs
split_into_paragraphs(text) ==
    LET ms == ParagraphBreaks(text)
        pos(k) == IF k = 1 THEN 0 ELSE ms[k - 1][2]
        stop(k) == IF k <= Len(ms) THEN ms[k][1] ELSE Len(text)
    IN  SelectSeq([k \in 1..(Len(ms) + 1) |->
                        <<strip(Slice(text, pos(k), stop(k))), pos(k)>>], NonEmpty)

\* re.finditer(r'(?<=[.!?])\s+', text): the runs of whitespace that follow a
\* sentence end
SentenceBreaks(text) ==
    InOrder({<<i, RunLast(text, i) + 1>> :
                i \in {i \in 1..(Len(text) - 1) :
                          /\ At(text, i) \in Whitespace
                          /\ At(text, i - 1) \in SentenceEnds}})

\* chunking.split_into_sentences: (sentence, start_position) pairs; a sentence
\* is text[current_pos:end_pos + 1].strip(), end_pos the start of the break
split_into_sentences(text) ==
    LET ms == SentenceBreaks(text)
        pos(k) == IF k = 1 THEN 0 ELSE ms[k - 1][2]
        stop(k) == IF k <= Len(ms) THEN ms[k][1] + 1 ELSE Len(text)
    IN  SelectSeq([k \in 1..(Len(ms) + 1) |->
                        <<strip(Slice(text, pos(k), stop(k))), pos(k)>>], NonEmpty)

\* re.search(r"\[PAGE (\d+)\]", text): where the pattern matches
PageMarkers(text) ==
    {i \in 0..(Len(text) - 8) :
        /\ Slice(text, i, i + 6) = "[PAGE "
        /\ \E j \in (i + 7)..(Len(text) - 1) :
                /\ At(text, j) = "]"
                /\ \A k \in (i + 6)..(j - 1) : At(text, k) \in Digits}

\* chunking.extract_page_number: "p.N" of the first marker, "" for None
extract_page_number(text) ==
    IF PageMarkers(text) = {}
    THEN ""
    ELSE LET i == SetMin(PageMarkers(text))
             j == SetMin({j \in (i + 7)..(Len(text) - 1) : At(text, j) = "]"})
         IN  "p." \o Slice(text, i + 6, j)

\* where the line that holds position q ends: the next newline, or the end
LineEnd(text, q) ==
    CHOOSE e \in q..Len(text) :
        /\ e = Len(text) \/ At(text, e) = "\n"
        /\ \A k \in q..(e - 1) : At(text, k) # "\n"

\* how many '#' stand at position p
HashRun(text, p) ==
    CHOOSE h \in 0..(Len(text) - p) :
        /\ \A k \in p..(p + h - 1) : At(text, k) = "#"
        /\ p + h = Len(text) \/ At(text, p + h) # "#"

\* r"^(#{1,6})\s+(.+)$" tried at the line start p: where group 2 starts, -1 if
\* the pattern does not match there.  One to six '#', then whitespace; \s+ takes
\* the whole run of whitespace (newlines too) unless the run reaches the end of
\* the text, where it gives back as little as lets (.+) start on a character
\* that is not a newline.
HeadingTitleStart(text, p) ==
    LET h == HashRun(text, p)
    IN  IF h \notin 1..6 \/ p + h >= Len(text) THEN -1
        ELSE IF At(text, p + h) \notin Whitespace THEN -1
        ELSE LET rl == RunLast(text, p + h)
                 back == {q \in (p + h + 1)..(Len(text) - 1) : At(text, q) # "\n"}
             IN  IF rl + 1 < Len(text) THEN rl + 1
                 ELSE IF back = {} THEN -1
                 ELSE SetMax(back)

\* re.findall of the heading pattern (re.MULTILINE) from position `from` on:
\* the titles, stripped
RECURSIVE HeadingsFrom(_, _)
HeadingsFrom(text, from) ==
    LET starts == {p \in 0..(Len(text) - 1) :
                      /\ p >= from
                      /\ p = 0 \/ At(text, p - 1) = "\n"
                      /\ HeadingTitleStart(text, p) >= 0}
    IN  IF starts = {} THEN <<>>
        ELSE LET q == HeadingTitleStart(text, SetMin(starts))
                 e == LineEnd(text, q)
             IN  <<strip(Slice(text, q, e))>> \o HeadingsFrom(text, e)

\* chunking.extract_markdown_section: the last heading's title, "" for None
extract_markdown_section(text) ==
    LET headings == HeadingsFrom(text, 0)
    IN  IF headings = <<>> THEN "" ELSE headings[Len(headings)]

\* a label that is the bare title of the heading
SectionLabel_Bare(section) == section

\* chunking.find_section_context: f"## {section}"
SectionLabel(section) == "## " \o section

\* a search that takes the last heading before a page marker
find_section_context_HeadingFirst(full_text, position) ==
    LET text_before == Prefix(full_text, position)
        page == extract_page_number(IF Len(text_before) > 500
                                    THEN Suffix(text_before, 500) ELSE text_before)
        section == extract_markdown_section(text_before)
    IN  IF section # "" THEN SectionLabel(section)
        ELSE IF page # "" THEN page
        ELSE ""

\* chunking.find_section_context: the page marker in the 500 characters before
\* position, else the last heading before position, "" for None
find_section_context(full_text, position) ==
    LET text_before == Prefix(full_text, position)
        page == extract_page_number(IF Len(text_before) > 500
                                    THEN Suffix(text_before, 500) ELSE text_before)
        section == extract_markdown_section(text_before)
    IN  IF page # "" THEN page
        ELSE IF section # "" THEN SectionLabel(section)
        ELSE ""

\* chunking.chunk_text: the TextChunk made of the running chunk
Finalize(text, current_chunk_text, current_chunk_start, chunk_index) ==
    [content |-> strip(current_chunk_text),
     page_or_section |-> find_section_context(text, current_chunk_start),
     chunk_index |-> chunk_index,
     start_char |-> current_chunk_start,
     end_char |-> current_chunk_start + Len(current_chunk_text),
     token_count |-> estimate_tokens(current_chunk_text)]

\* a loop body that seeds the next chunk with the tail of the finalized one
\* whatever its length
AccumulateStep_AlwaysOverlap(st, para, text, max_tokens_, overlap_chars) ==
    LET para_text == para[1]
        para_start == para[2]
        cur == st.current_chunk_text
    IN  IF cur # "" /\ estimate_tokens(cur) + estimate_tokens(para_text) > max_tokens_
        THEN LET done == Append(st.chunks,
                            Finalize(text, cur, st.current_chunk_start, st.chunk_index))
             IN  IF overlap_chars > 0
                 THEN [chunks |-> done, chunk_index |-> st.chunk_index + 1,
                       current_chunk_text |->
                            Suffix(cur, overlap_chars) \o "\n\n" \o para_text,
                       current_chunk_start |->
                            para_start - Len(Suffix(cur, overlap_chars))]
                 ELSE [chunks |-> done, chunk_index |-> st.chunk_index + 1,
                       current_chunk_text |-> para_text,
                       current_chunk_start |-> para_start]
        ELSE IF cur # ""
        THEN [st EXCEPT !.current_chunk_text = cur \o "\n\n" \o para_text]
        ELSE [st EXCEPT !.current_chunk_text = para_text,
                        !.current_chunk_start = para_start]

\* chunking.chunk_text: the body of the loop over the paragraphs
AccumulateStep(st, para, text, max_tokens_, overlap_chars) ==
    LET para_text == para[1]
        para_start == para[2]
        cur == st.current_chunk_text
    IN  IF cur # "" /\ estimate_tokens(cur) + estimate_tokens(para_text) > max_tokens_
        THEN LET done == Append(st.chunks,
                            Finalize(text, cur, st.current_chunk_start, st.chunk_index))
             IN  IF overlap_chars > 0 /\ Len(cur) > overlap_chars
                 THEN [chunks |-> done, chunk_index |-> st.chunk_index + 1,
                       current_chunk_text |->
                            Suffix(cur, overlap_chars) \o "\n\n" \o para_text,
                       current_chunk_start |->
                            para_start - Len(Suffix(cur, overlap_chars))]
                 ELSE [chunks |-> done, chunk_index |-> st.chunk_index + 1,
                       current_chunk_text |-> para_text,
                       current_chunk_start |-> para_start]
        ELSE IF cur # ""
        THEN [st EXCEPT !.current_chunk_text = cur \o "\n\n" \o para_text]
        ELSE [st EXCEPT !.current_chunk_text = para_text,
                        !.current_chunk_start = para_start]

RECURSIVE AccumulateLoop(_, _, _, _, _, _)
AccumulateLoop(text, paragraphs, i, st, max_tokens_, overlap_chars) ==
    IF i > Len(paragraphs) THEN st
    ELSE AccumulateLoop(text, paragraphs, i + 1,
            AccumulateStep(st, paragraphs[i], text, max_tokens_, overlap_chars),
            max_tokens_, overlap_chars)

\* a chunker that forgets the chunk it is still filling when the paragraphs end
LastChunk_Forgotten(text, st) == st.chunks

\* chunking.chunk_text: "Don't forget the last chunk"
LastChunk(text, st) ==
    IF strip(st.current_chunk_text) # ""
    THEN Append(st.chunks, Finalize(text, st.current_chunk_text,
                                    st.current_chunk_start, st.chunk_index))
    ELSE st.chunks

\* chunking.chunk_text up to the repair passes
Accumulated(text, max_tokens_, overlap_tokens) ==
    LET found == split_into_paragraphs(text)
        paragraphs == IF found = <<>> THEN <<<<strip(text), 0>>>> ELSE found
        st0 == [chunks |-> <<>>, chunk_index |-> 0,
                current_chunk_text |-> "", current_chunk_start |-> 0]
    IN  LastChunk(text, AccumulateLoop(text, paragraphs, 1, st0, max_tokens_,
                                       tokens_to_chars(overlap_tokens)))

\* a merge that keeps the text of the second chunk only
MergeTwo_KeepsNext(current, next_chunk) ==
    [content |-> next_chunk.content,
     page_or_section |-> current.page_or_section,
     chunk_index |-> current.chunk_index,
     start_char |-> current.start_char,
     end_char |-> next_chunk.end_char,
     token_count |-> current.token_count + next_chunk.token_count]

\* chunking._merge_small_chunks: current merged with next_chunk
MergeTwo(current, next_chunk) ==
    [content |-> current.content \o "\n\n" \o next_chunk.content,
     page_or_section |-> current.page_or_section,
     chunk_index |-> current.chunk_index,
     start_char |-> current.start_char,
     end_char |-> next_chunk.end_char,
     token_count |-> current.token_count + next_chunk.token_count]

\* chunking._merge_small_chunks, the inner loop: <<current, i>> when it ends
RECURSIVE MergeInner(_, _, _, _)
MergeInner(chunks, i, current, min_tokens) ==
    IF current.token_count < min_tokens /\ i + 1 <= Len(chunks)
    THEN MergeInner(chunks, i + 1, MergeTwo(current, chunks[i + 1]), min_tokens)
    ELSE <<current, i>>

\* chunking._merge_small_chunks, the outer loop
RECURSIVE MergeOuter(_, _, _, _)
MergeOuter(chunks, i, merged, min_tokens) ==
    IF i > Len(chunks) THEN merged
    ELSE LET r == MergeInner(chunks, i, chunks[i], min_tokens)
         IN  MergeOuter(chunks, r[2] + 1, Append(merged, r[1]), min_tokens)

\* chunking._merge_small_chunks
merge_small_chunks(chunks, min_tokens) ==
    IF Len(chunks) <= 1 THEN chunks ELSE MergeOuter(chunks, 1, <<>>, min_tokens)

\* chunking._split_large_chunks: the sub-chunk made of the running text
SubChunk(chunk_, current_text, current_start) ==
    [content |-> strip(current_text),
     page_or_section |-> chunk_.page_or_section,
     chunk_index |-> chunk_.chunk_index,
     start_char |-> current_start,
     end_char |-> current_start + Len(current_text),
     token_count |-> estimate_tokens(current_text)]

\* chunking._split_large_chunks, the loop over the sentences of one chunk
RECURSIVE PackSentences(_, _, _, _, _, _, _)
PackSentences(chunk_, sentences, k, current_text, current_start, result, max_tokens_) ==
    IF k > Len(sentences)
    THEN IF strip(current_text) # ""
         THEN Append(result, SubChunk(chunk_, current_text, current_start))
         ELSE result
    ELSE LET sentence == sentences[k][1]
             rel_pos == sentences[k][2]
         IN  IF /\ current_text # ""
                /\ estimate_tokens(current_text) + estimate_tokens(sentence) > max_tokens_
             THEN PackSentences(chunk_, sentences, k + 1, sentence,
                        chunk_.start_char + rel_pos,
                        Append(result, SubChunk(chunk_, current_text, current_start)),
                        max_tokens_)
             ELSE PackSentences(chunk_, sentences, k + 1,
                        IF current_text # "" THEN current_text \o " " \o sentence
                                             ELSE sentence,
                        current_start, result, max_tokens_)

\* chunking._split_large_chunks, the loop over the chunks
RECURSIVE SplitLoop(_, _, _, _)
SplitLoop(chunks, i, result, max_tokens_) ==
    IF i > Len(chunks) THEN result
    ELSE IF chunks[i].token_count <= max_tokens_
    THEN SplitLoop(chunks, i + 1, Append(result, chunks[i]), max_tokens_)
    ELSE SplitLoop(chunks, i + 1,
            PackSentences(chunks[i], split_into_sentences(chunks[i].content), 1,
                          "", chunks[i].start_char, result, max_tokens_),
            max_tokens_)

\* chunking._split_large_chunks
split_large_chunks(chunks, max_tokens_) == SplitLoop(chunks, 1, <<>>, max_tokens_)

\* a chunker that returns the chunks as the repair passes left them
Reindex_Skipped(chunks) == chunks

\* chunking.chunk_text: "Re-index after merging/splitting"
Reindex(chunks) == [i \in DOMAIN chunks |-> [chunks[i] EXCEPT !.chunk_index = i - 1]]

\* chunking.chunk_text, from the call to the end of the loop over the paragraphs
\* (an empty or whitespace-only text returns [] at once)
ChunkAccumulate ==
    /\ chunk_pc = "called"
    /\ IF strip(chunk_args.text) = ""
       THEN /\ text_chunks' = <<>>
            /\ chunk_pc' = "returned"
       ELSE /\ text_chunks' = Accumulated(chunk_args.text, chunk_args.max_tokens,
                                          chunk_args.overlap_tokens)
            /\ chunk_pc' = "merge"
    /\ UNCHANGED <<chunk_args, storeVars, searchVars, asmVars, serviceVars>>

\* chunking.chunk_text: chunks = _merge_small_chunks(chunks, min_tokens)
ChunkMerge ==
    /\ chunk_pc = "merge"
    /\ text_chunks' = merge_small_chunks(text_chunks, chunk_args.min_tokens)
    /\ chunk_pc' = "split"
    /\ UNCHANGED <<chunk_args, storeVars, searchVars, asmVars, serviceVars>>

\* chunking.chunk_text: chunks = _split_large_chunks(chunks, max_tokens_)
ChunkSplit ==
    /\ chunk_pc = "split"
    /\ text_chunks' = split_large_chunks(text_chunks, chunk_args.max_tokens)
    /\ chunk_pc' = "reindex"
    /\ UNCHANGED <<chunk_args, storeVars, searchVars, asmVars, serviceVars>>

\* chunking.chunk_text: re-index and return
ChunkReindex ==
    /\ chunk_pc = "reindex"
    /\ text_chunks' = Reindex(text_chunks)
    /\ chunk_pc' = "returned"
    /\ UNCHANGED <<chunk_args, storeVars, searchVars, asmVars, serviceVars>>

\* ------------------------------------------------------------ specification
\* no call has returned or raised yet
CallsInit ==
    /\ delete_result = None
    /\ index_pc = "idle"
    /\ index_chunks = <<>>
    /\ batch_pc = "idle"
    /\ batch_texts = 0
    /\ embeddings = <<>>
    /\ embed_raised = ""
    /\ http_requests = 0
    /\ contents = << >>
    /\ create_path = ""
    /\ create_raised = ""
    /\ fs_accesses = <<>>
    /\ discover_dir = ""
    /\ new_files = None
    /\ answer = ""
    /\ sources_used = <<>>
    /\ llm_outcome = ""

\* ... and the one file the documents are registered from is on the disk
ServiceInit ==
    /\ CallsInit
    /\ files = {resolve("a.md")}

\* the tables are empty and no call is running
StoreInit ==
    /\ sources = << >>
    /\ knowledge_chunks = << >>
    /\ next_source_id = 1
    /\ next_uuid = 1
    /\ collection = << >>
    /\ pc = "idle"
    /\ args = None
    /\ raw_results = <<>>
    /\ hit = 0
    /\ chunk = None
    /\ results = <<>>
    /\ raised = ""
    /\ max_tokens = 0
    /\ context_parts = <<>>
    /\ total_tokens = 0
    /\ context = ""
    /\ used = <<>>
    /\ citations = ""
    /\ verify_result = None
    /\ chunk_pc = "idle"
    /\ chunk_args = None
    /\ text_chunks = <<>>

Init ==
    /\ StoreInit
    /\ ServiceInit

\* the store and the search running against it, every interleaving of the two
TrustArgs == {None} \cup {Some(t) : t \in TrustLevels \ {TRUST_WEB}}
SourceIdArgs == {None, Some({}), Some({1})}

\* writers whose effect no running search can observe: a row they insert has a
\* fresh id, which is in no raw_results, and search reads the collection only
\* in search_similar.  They commute with every step of a running search, so
\* they are scheduled between searches.
Writer ==
    /\ pc = "idle"
    /\ \/ \E t \in TrustLevels : create_source("a.md", t)
       \/ \E s \in SourceIds, cs \in TextChunkLists({"aaaa"}, {""}, {1}) :
               next_uuid + Len(cs) - 1 <= MaxUuid /\ save_chunks(s, cs)
       \/ \E s \in SourceIds, e \in UNION {[C -> Embeddings] : C \in SUBSET Uuids} :
               add_chunks_to_vectorstore(s, e)
       \/ \E s \in SourceIds : delete_source_embeddings(s)

\* writers that take rows away: at any moment, also between two steps of a search
Deleter ==
    \/ \E s \in SourceIds : delete_chunks_for_source(s)
    \/ \E s \in DOMAIN sources : delete_source(s)

SearchStep ==
    \/ \E n \in 1..MaxK, t \in TrustArgs, ids \in SourceIdArgs : Search(n, t, ids)
    \/ GetChunk
    \/ GetSource
    \/ SearchReturn
    \/ Return

Next == Writer \/ Deleter \/ SearchStep

Spec == Init /\ [][Next]_vars

\* the document lifecycle on the relational store alone
\* status, chunk_count, error_message: the calls of update_source_status that
\* differ in what they write (chunk_count is written for 'indexed' only,
\* error_message for 'failed' only)
StatusArgs ==
    {<<"indexed", n, "">> : n \in 0..MaxBatch}
    \cup {<<"failed", 0, e>> : e \in ErrorMessages}
    \cup {<<st, 0, "">> : st \in Statuses \ {"indexed", "failed"}}

InitLifecycle == Init

NextLifecycle ==
    \/ create_source("a.md", TRUST_PERSONAL)
    \/ \E s \in SourceIds, cs \in TextChunkLists({"aaaa"}, {""}, {1}) :
            next_uuid + Len(cs) - 1 <= MaxUuid /\ save_chunks(s, cs)
    \/ \E s \in SourceIds, a \in StatusArgs : update_source_status(s, a[1], a[2], a[3])
    \/ \E s \in SourceIds, f \in FileStates : verify_source(s, f)
    \/ \E s \in SourceIds : delete_chunks_for_source(s)
    \/ \E s \in DOMAIN sources : delete_source(s)

SpecLifecycle == InitLifecycle /\ [][NextLifecycle]_vars

\* the status of the documents: registration, the outcomes of ingestion,
\* verification and deletion, no chunk rows
InitVerify == Init

NextVerify ==
    \/ create_source("a.md", TRUST_PERSONAL)
    \/ \E s \in SourceIds, a \in StatusArgs : update_source_status(s, a[1], a[2], a[3])
    \/ \E s \in SourceIds, f \in FileStates : verify_source(s, f)
    \/ \E s \in DOMAIN sources : delete_source(s)

SpecVerify == InitVerify /\ [][NextVerify]_vars

\* a registered file is rewritten, ingested again and verified: the status
\* updates of the ingestion run, verify_source on the file as it is, and the
\* deletion of the document
InitReingest == Init

NextReingest ==
    \/ create_source("a.md", TRUST_PERSONAL)
    \/ ModifyFile(resolve("a.md"))
    \/ \E s \in SourceIds, a \in StatusArgs : update_source_status(s, a[1], a[2], a[3])
    \/ \E s \in SourceIds : VerifyOnDisk(s)
    \/ \E s \in DOMAIN sources : delete_source(s)

SpecReingest == InitReingest /\ [][NextReingest]_vars

\* the relational store and the vector index side by side: documents and
\* their chunks are saved, indexed, deleted and cleaned up in any order, and
\* delete_source is also called with ids that name no document
ChunkContents == {"aaaa", "bbbb"}

InitIndex == Init

NextIndex ==
    \/ create_source("a.md", TRUST_PERSONAL)
    \/ \E s \in SourceIds, cs \in TextChunkLists(ChunkContents, {""}, {1}) :
            next_uuid + Len(cs) - 1 <= MaxRows /\ save_chunks(s, cs)
    \/ \E s \in SourceIds, e \in UNION {[C -> {0}] : C \in SUBSET (1..MaxRows)} :
            add_chunks_to_vectorstore(s, e)
    \/ \E s \in SourceIds : delete_source_embeddings(s)
    \/ \E s \in SourceIds : delete_chunks_for_source(s)
    \/ \E s \in SourceIds : delete_source(s)

SpecIndex == InitIndex /\ [][NextIndex]_vars

\* ingestion and re-ingestion of documents.  The run that ingests a document
\* is not part of the modules modelled here; by the design it deletes the
\* document's chunk rows in bulk before it saves the chunks again, so chunks
\* are saved for a document that has no rows
IngestChunks(source_id, chunks) ==
    /\ ChunkIdsOf(source_id) = {}
    /\ save_chunks(source_id, chunks)

InitIngest == Init

NextIngest ==
    \/ create_source("a.md", TRUST_PERSONAL)
    \/ \E s \in SourceIds : delete_chunks_for_source(s)
    \/ \E s \in SourceIds, cs \in TextChunkLists(ChunkContents, {""}, {1}) :
            next_uuid + Len(cs) - 1 <= MaxIngestRows /\ IngestChunks(s, cs)
    \/ \E s \in DOMAIN sources : delete_source(s)
    \/ \E s \in SourceIds : IndexStart(s)
    \/ \E o \in PostOutcomes, v \in Embeddings : IndexEmbed(o, v)
    \/ IndexAdd
    \/ \E s \in SourceIds : delete_source_embeddings(s)

SpecIngest == InitIngest /\ [][NextIngest]_vars

\* the indexing of documents whose chunks are handed over as rows read from
\* the store or as objects of which one was never saved
InitVectors == Init

NextVectors ==
    \/ create_source("a.md", TRUST_PERSONAL)
    \/ \E s \in SourceIds, cs \in TextChunkLists(ChunkContents, {""}, {1}) :
            next_uuid + Len(cs) - 1 <= MaxRows /\ IngestChunks(s, cs)
    \/ \E s \in SourceIds : IndexStart(s)
    \/ \E s \in SourceIds, k \in 1..MaxBatch : IndexStartUnsaved(s, k)
    \/ \E o \in PostOutcomes, v \in Embeddings : IndexEmbed(o, v)
    \/ IndexMissingId
    \/ IndexAdd

SpecVectors == InitVectors /\ [][NextVectors]_vars

\* ---------------------------------------------------- batches of embeddings
\* a caller that asks for one batch of embeddings after the other
BatchDone ==
    /\ batch_pc \in {"returned", "raised"}
    /\ batch_pc' = "idle"
    /\ UNCHANGED <<batch_texts, embeddings, embed_raised, http_requests, index_pc,
                   index_chunks, delete_result, registerVars, answerVars, storeVars, searchVars, asmVars, chunkerVars>>

InitEmbed == Init

NextEmbed ==
    \/ \E n \in 0..MaxTexts : BatchStart(n)
    \/ \E o \in PostOutcomes, v \in Embeddings : BatchEmbed(o, v)
    \/ BatchDone

SpecEmbed == InitEmbed /\ [][NextEmbed]_vars

\* ------------------------------------------------ registering and discovering
\* the files there can be: in the sources directory /w/d and below it, with
\* extensions of every kind, and one outside it
DiskPaths ==
    {"/w/d/a.md", "/w/d/s/b.pdf", "/w/d/c.docx", "/w/d/e.markdown", "/w/d/F.PDF",
     "/w/x/g.txt"}

\* the paths create_source is called with, one of them relative
RegisterPaths == {"d/a.md", "/w/d/s/b.pdf", "/w/d/c.docx", "/w/d/e.markdown", "/w/d/F.PDF"}

\* the sources directory, as discover_new_sources is given it
Directories == {"d", "/w/d"}

InitRegister ==
    /\ StoreInit
    /\ CallsInit
    /\ files \in SUBSET DiskPaths

NextRegister ==
    \/ \E p \in RegisterPaths : create_source(p, TRUST_PERSONAL)
    \/ \E d \in Directories : discover_new_sources(d)
    \/ \E s \in DOMAIN sources : delete_source(s)

SpecRegister == InitRegister /\ [][NextRegister]_vars

\* the assembler and the footer on what a search returned
AsmSources ==
    {[id |-> 1, file_name |-> "a.md", trust_level |-> TRUST_PERSONAL,
      status |-> "indexed", chunk_count |-> 1],
     [id |-> 2, file_name |-> "b.pdf", trust_level |-> TRUST_WEB,
      status |-> "indexed", chunk_count |-> 1]}

\* content, page_or_section, token_count: no stored count (the estimate is
\* used), a stored count below the estimate, a stored count above it
AsmShapes ==
    {<<"aaaa", "", 0>>, <<"bbbbbbbbbbbb", "p.1", 0>>,
     <<"bbbbbbbbbbbb", "", 1>>, <<"aaaa", "p.1", 3>>}

AsmResult(i, src, shape, distance) ==
    LET c == [chunk_id |-> i, source_id |-> src.id, content |-> shape[1],
              page_or_section |-> shape[2], chunk_index |-> 0,
              token_count |-> shape[3]]
    IN [chunk |-> c, source |-> src, similarity_score |-> Similarity(distance),
        citation_ref |-> CitationRef(c, src)]

\* what search can return for n_results = MaxResults: at most that many
\* results, highest weighted_score first
AsmRanked ==
    UNION {{rs \in [1..n -> UNION {{AsmResult(0, src, sh, d) : src \in AsmSources,
                                        sh \in AsmShapes, d \in 0..1}}] :
              \A i \in 1..(n - 1) : RatLeq(weighted_score(rs[i + 1]), weighted_score(rs[i]))}
           : n \in 0..MaxResults}

WithChunkIds(rs) == [i \in DOMAIN rs |-> [rs[i] EXCEPT !.chunk.chunk_id = i]]

\* what the model can reply: an answer with a marker, the sentence the system
\* prompt tells it to say (with the white space a model puts around a reply),
\* the same in capitals and cut short, a paraphrase of it, and nothing
LlmResponses ==
    {"Paris [1].",
     " I don't have enough information in my sources to answer this question.\n",
     "I DON'T HAVE ENOUGH INFORMATION",
     "I do not have enough information",
     ""}

InitAssemble ==
    /\ sources = << >>
    /\ knowledge_chunks = << >>
    /\ next_source_id = 1
    /\ next_uuid = 1
    /\ collection = << >>
    /\ pc = "done"
    /\ args = [n_results |-> MaxResults, trust_level |-> None, source_ids |-> None]
    /\ raw_results = <<>>
    /\ hit = 0
    /\ chunk = None
    /\ \E rs \in AsmRanked : results = WithChunkIds(rs)
    /\ raised = ""
    /\ max_tokens = 0
    /\ context_parts = <<>>
    /\ total_tokens = 0
    /\ context = ""
    /\ used = <<>>
    /\ citations = ""
    /\ verify_result = None
    /\ chunk_pc = "idle"
    /\ chunk_args = None
    /\ text_chunks = <<>>
    /\ ServiceInit

NextAssemble ==
    \/ \E b \in 0..MaxBudget : GetContextForQuery(b)
    \/ \E o \in PostOutcomes, r \in LlmResponses : Ask(o, r)

SpecAssemble == InitAssemble /\ [][NextAssemble]_vars

\* the chunker on short texts: every text made of at most MaxPieces pieces
\* (words of one token and of none, a sentence, a space, a paragraph break),
\* every small min_tokens, max_tokens and overlap_tokens
Pieces == {"aaaa", "bbbbbb.", "c", " ", "\n\n"}

RECURSIVE Texts(_)
Texts(k) ==
    IF k = 0 THEN {""}
    ELSE Texts(k - 1) \cup {t \o p : t \in Texts(k - 1), p \in Pieces}

\* and the two inputs of the chunker's own edge-case tests, three sentences
\* of no token each, and two paragraphs under a heading line
ShortTexts ==
    Texts(MaxPieces)
    \cup {"Hello", "   \n\n   \t   ", "a. a. a.", "# H\naaaa\n\naaaa"}

ShortArgs ==
    [text : ShortTexts, file_type : {"txt"}, min_tokens : 0..MaxMinTokens,
     max_tokens : 0..MaxMaxTokens, overlap_tokens : 0..MaxOverlapTokens]

InitChunk ==
    /\ sources = << >>
    /\ knowledge_chunks = << >>
    /\ next_source_id = 1
    /\ next_uuid = 1
    /\ collection = << >>
    /\ verify_result = None
    /\ pc = "idle"
    /\ args = None
    /\ raw_results = <<>>
    /\ hit = 0
    /\ chunk = None
    /\ results = <<>>
    /\ raised = ""
    /\ max_tokens = 0
    /\ context_parts = <<>>
    /\ total_tokens = 0
    /\ context = ""
    /\ used = <<>>
    /\ citations = ""
    /\ chunk_pc = "called"
    /\ chunk_args \in ShortArgs
    /\ text_chunks = <<>>
    /\ ServiceInit

NextChunk ==
    \/ ChunkAccumulate
    \/ ChunkMerge
    \/ ChunkSplit
    \/ ChunkReindex

SpecChunk == InitChunk /\ [][NextChunk]_vars

\* the chunker on a markdown document: a heading, a blank line and a run of
\* the word "word " with no sentence end in it
RECURSIVE Repeat(_, _)
Repeat(s, n) ==
    IF n = 0 THEN ""
    ELSE LET half == Repeat(s, n \div 2)
         IN  half \o half \o (IF n % 2 = 1 THEN s ELSE "")

IntroDocument(n) == "# Intro\n\n" \o Repeat("word ", n)

DocumentArgs ==
    [text : {IntroDocument(n) : n \in {100, 200, 300, 400, 500}},
     file_type : {"md", "txt"},
     min_tokens : {0, MIN_CHUNK_TOKENS},
     max_tokens : {200, MAX_CHUNK_TOKENS},
     overlap_tokens : {0, OVERLAP_TOKENS}]

InitDocument ==
    /\ sources = << >>
    /\ knowledge_chunks = << >>
    /\ next_source_id = 1
    /\ next_uuid = 1
    /\ collection = << >>
    /\ verify_result = None
    /\ pc = "idle"
    /\ args = None
    /\ raw_results = <<>>
    /\ hit = 0
    /\ chunk = None
    /\ results = <<>>
    /\ raised = ""
    /\ max_tokens = 0
    /\ context_parts = <<>>
    /\ total_tokens = 0
    /\ context = ""
    /\ used = <<>>
    /\ citations = ""
    /\ chunk_pc = "called"
    /\ chunk_args \in DocumentArgs
    /\ text_chunks = <<>>
    /\ ServiceInit

NextDocument ==
    \/ ChunkAccumulate
    \/ ChunkMerge
    \/ ChunkSplit
    \/ ChunkReindex

SpecDocument == InitDocument /\ [][NextDocument]_vars

\* the chunker on documents with page markers and headings: up to three
\* paragraphs, among them a filler of 600 characters that moves what stands
\* before it out of the 500 characters find_section_context looks at, and
\* three documents of four paragraphs
SectionParagraphs ==
    {"# Intro", "## Part", "[PAGE 1]", "[PAGE 2] aaaa. bbbb.", "cccc",
     Repeat("word ", 120)}

SectionTexts ==
    {Join(ps, "\n\n") :
        ps \in UNION {[1..n -> SectionParagraphs] : n \in 1..3}}
    \cup {Join(<<"# Intro", "[PAGE 1]", Repeat("word ", 120), "cccc">>, "\n\n"),
          Join(<<"[PAGE 1]", "## Part", Repeat("word ", 120), "cccc">>, "\n\n"),
          Join(<<"[PAGE 1]", Repeat("word ", 120), "[PAGE 2] aaaa. bbbb.", "cccc">>,
               "\n\n")}

SectionArgs ==
    [text : SectionTexts, file_type : {"md"}, min_tokens : {0, 2},
     max_tokens : {1, MAX_CHUNK_TOKENS}, overlap_tokens : {0, 1}]

InitSection ==
    /\ sources = << >>
    /\ knowledge_chunks = << >>
    /\ next_source_id = 1
    /\ next_uuid = 1
    /\ collection = << >>
    /\ verify_result = None
    /\ pc = "idle"
    /\ args = None
    /\ raw_results = <<>>
    /\ hit = 0
    /\ chunk = None
    /\ results = <<>>
    /\ raised = ""
    /\ max_tokens = 0
    /\ context_parts = <<>>
    /\ total_tokens = 0
    /\ context = ""
    /\ used = <<>>
    /\ citations = ""
    /\ chunk_pc = "called"
    /\ chunk_args \in SectionArgs
    /\ text_chunks = <<>>
    /\ ServiceInit

NextSection ==
    \/ ChunkAccumulate
    \/ ChunkMerge
    \/ ChunkSplit
    \/ ChunkReindex

SpecSection == InitSection /\ [][NextSection]_vars

\* =================================================================== claims
\* the search call is past search_similar and has not returned to idle
Searching == pc \in {"get_chunk", "get_source", "done"}

\* the step is a step of the search loop that finished hit number `hit`
LoopStep == pc \in {"get_chunk", "get_source"} /\ hit' = hit + 1

\* ------------------------------------------------ reading the returned text
StartsWith(s, prefix) ==
    Len(s) >= Len(prefix) /\ SubSeq(s, 1, Len(prefix)) = prefix

EndsWith(s, suffix) ==
    Len(s) >= Len(suffix) /\ SubSeq(s, Len(s) - Len(suffix) + 1, Len(s)) = suffix

\* where sep occurs in s
Occurrences(s, sep) ==
    {j \in 1..(Len(s) - Len(sep) + 1) : SubSeq(s, j, j + Len(sep) - 1) = sep}


\* the pieces of s between the occurrences of sep, left to right
RECURSIVE Split(_, _)
Split(s, sep) ==
    IF Occurrences(s, sep) = {} THEN <<s>>
    ELSE LET j == SetMin(Occurrences(s, sep))
         IN <<SubSeq(s, 1, j - 1)>> \o Split(SubSeq(s, j + Len(sep), Len(s)), sep)

\* the numbers of the markers "[d]" in s, left to right
MarkerSeq(s) ==
    LET at == {j \in 1..(Len(s) - 2) :
                 /\ SubSeq(s, j, j) = "["
                 /\ SubSeq(s, j + 2, j + 2) = "]"
                 /\ \E d \in 0..9 : SubSeq(s, j + 1, j + 1) = ToString(d)}
        nth(k) == CHOOSE j \in at : Cardinality({x \in at : x < j}) = k - 1
    IN [k \in 1..Cardinality(at) |->
            CHOOSE d \in 0..9 : SubSeq(s, nth(k) + 1, nth(k) + 1) = ToString(d)]

\* the parts of an assembled context
PartsOf(text) == IF text = "" THEN <<>> ELSE Split(text, "\n---\n")

\* the tokens the assembler counts for a list of results
RECURSIVE SumTokens(_)
SumTokens(rs) ==
    IF rs = <<>> THEN 0
    ELSE (IF Head(rs).chunk.token_count # 0 THEN Head(rs).chunk.token_count
          ELSE Len(Head(rs).chunk.content) \div CHARS_PER_TOKEN) + SumTokens(Tail(rs))

Assembled == pc \in {"assembled", "answered"}

\* C2 (as claimed): in every reachable state of the relational store a document
\* whose status is indexed has chunk_count equal to the number of fragment rows
\* stored for it.
CountMatchesRows(s) ==
    sources[s].status = "indexed" =>
        sources[s].chunk_count = Cardinality(ChunkIdsOf(s))

C2_IndexedCountIsRowCount == \A s \in DOMAIN sources : CountMatchesRows(s)

\* C2 (amended): update_source_status(doc, "indexed", n) leaves the document
\* indexed with chunk_count = n, whatever rows are stored, so the count is the
\* row count exactly when the caller passes the row count; and once the count
\* of an indexed document matches its rows, it goes on matching over every
\* step that neither marks the document indexed again nor saves or deletes
\* rows of it.
C2_IndexedCountIsCallersCount ==
    [][\A s \in DOMAIN sources :
         /\ \A n \in 0..MaxBatch, e \in ErrorMessages :
               update_source_status(s, "indexed", n, e) =>
                   /\ sources'[s].status = "indexed"
                   /\ sources'[s].chunk_count = n
                   /\ CountMatchesRows(s)' <=> n = Cardinality(ChunkIdsOf(s))
         /\ (/\ s \in DOMAIN sources'
             /\ CountMatchesRows(s)
             /\ ChunkIdsOf(s)' = ChunkIdsOf(s)
             /\ ~ \E n \in 0..MaxBatch, e \in ErrorMessages :
                     update_source_status(s, "indexed", n, e))
            => CountMatchesRows(s)'
      ]_vars

\* C2 witness: a document marked indexed with the number of its rows, two of them
C2_Witness ==
    \E s \in DOMAIN sources :
        /\ sources[s].status = "indexed"
        /\ sources[s].chunk_count = 2
        /\ Cardinality(ChunkIdsOf(s)) = 2

C4_PrefixUntilFirstDrop ==
    Assembled =>
        /\ Len(used) <= Len(results)
        /\ Len(PartsOf(context)) = Len(used)
        /\ \A i \in DOMAIN used :
              /\ used[i] = results[i]
              /\ EndsWith(PartsOf(context)[i], "\n" \o results[i].chunk.content \o "\n")
        /\ Len(used) < Len(results) =>
              SumTokens(used) + SumTokens(<<results[Len(used) + 1]>>) > max_tokens

\* C4 witness: a result was dropped although the one ranked after it would fit
C4_Witness ==
    /\ pc = "assembled"
    /\ Len(used) >= 1
    /\ Len(used) + 1 < Len(results)
    /\ SumTokens(used) + SumTokens(<<results[Len(used) + 2]>>) <= max_tokens

\* C5: the footer is numbered 1..m over the results the assembler returned:
\* entry [i] of the footer names the file and the section of the same result
\* that the context marks [i].
C5_FooterMatchesContext ==
    pc = "answered" =>
        IF context = "" THEN citations = ""
        ELSE LET lines == Split(citations, "\n")
                 parts == PartsOf(context)
             IN /\ lines[1] = "---"
                /\ Len(lines) = Len(used) + 1
                /\ Len(parts) = Len(used)
                /\ \A i \in DOMAIN used :
                      LET name == used[i].source.file_name
                          sec == used[i].chunk.page_or_section
                      IN /\ lines[i + 1] = "[" \o ToString(i) \o "] " \o name
                                \o (IF sec # "" THEN " " \o sec ELSE "")
                         /\ StartsWith(parts[i], "[" \o ToString(i) \o "] Source: "
                                \o name \o (IF sec # "" THEN ", " \o sec ELSE "") \o "\n")

\* C5 witness: an answer whose footer lists two results of different documents
C5_Witness ==
    /\ pc = "answered"
    /\ citations # ""
    /\ Len(used) >= 2
    /\ used[1].source.id # used[2].source.id

\* C6: the number of results returned equals the number of citation markers
\* written into the context, and the markers are [1]..[m] in the order the
\* results were added.
C6_MarkersAreOneToM ==
    Assembled => MarkerSeq(context) = [k \in 1..Len(used) |-> k]

\* C6 witness: a context of two or more results, cut short by the budget
C6_Witness ==
    /\ pc = "assembled"
    /\ Len(used) >= 2
    /\ Len(used) < Len(results)
    /\ Len(MarkerSeq(context)) = Len(used)

\* C1: search never fails because the vector index and the relational store
\* disagree.  A hit whose fragment row is missing, or whose document row is
\* missing, is passed over without a result and without an exception, whatever
\* deletes run between the steps of the search; a fragment handed on by the
\* lookup is a row of the store at that lookup, and every result appended
\* carries that fragment and a document that is a row of the store at its
\* lookup.
C1_StaleHitsSkipped ==
    [][/\ raised' = ""
       /\ (pc = "get_chunk" /\ pc' = "get_source") =>
             /\ chunk'.chunk_id = raw_results[hit].chunk_id
             /\ chunk'.chunk_id \in DOMAIN knowledge_chunks
             /\ chunk'.source_id = knowledge_chunks[chunk'.chunk_id].source_id
       /\ (LoopStep /\ pc = "get_chunk") =>
             /\ raw_results[hit].chunk_id \notin DOMAIN knowledge_chunks
             /\ results' = results
       /\ (LoopStep /\ pc = "get_source" /\ chunk.source_id \notin DOMAIN sources) =>
             results' = results
       /\ (Searching /\ pc' # "idle" /\ results' # results /\ pc' # "done") =>
             /\ Len(results') = Len(results) + 1
             /\ results'[Len(results')].chunk = chunk
             /\ results'[Len(results')].source.id = chunk.source_id
             /\ chunk.source_id \in DOMAIN sources
      ]_vars

\* C1 witness: one hit already gave a result, and the document of the next
\* hit's fragment was deleted between the two lookups
C1_Witness ==
    /\ pc = "get_source"
    /\ chunk # None
    /\ chunk.source_id \notin DOMAIN sources
    /\ Len(results) >= 1

\* C7: search returns at most n_results results in non-increasing order of
\* weighted_score; so of two results with equal raw similarity the one from the
\* more trusted document (lower trust_level) comes first.
C7_RankedByWeightedScore ==
    (pc = "done" /\ raised = "") =>
        /\ Len(results) <= args.n_results
        /\ \A i, j \in DOMAIN results :
              /\ i < j => RatLeq(weighted_score(results[j]), weighted_score(results[i]))
              /\ (/\ RatEq(results[i].similarity_score, results[j].similarity_score)
                  /\ results[i].source.trust_level < results[j].source.trust_level)
                 => i < j

\* C7 witness: similarity 0.8 at trust levels 1 and 3, returned as weighted
\* scores 0.8 and 4/15 (about 0.267), in that order
C7_Witness ==
    /\ pc = "done"
    /\ Len(results) = 2
    /\ RatEq(results[1].similarity_score, <<4, 5>>)
    /\ RatEq(results[2].similarity_score, <<4, 5>>)
    /\ results[1].source.trust_level = TRUST_PERSONAL
    /\ results[2].source.trust_level = TRUST_WEB
    /\ RatEq(weighted_score(results[1]), <<4, 5>>)
    /\ RatEq(weighted_score(results[2]), <<4, 15>>)

\* C8: for every search result, trust_weight is 1/trust_level of the document
\* that owns its fragment (1 for level 1, 1/2 for level 2, 1/3 for level 3) and
\* weighted_score is similarity_score * trust_weight.
C8_TrustWeight ==
    \A i \in DOMAIN results :
        LET r == results[i]
            doc == r.chunk.source_id
        IN doc \in DOMAIN sources =>
            LET level == sources[doc].trust_level
            IN /\ trust_weight(r)[1] * level = trust_weight(r)[2]
               /\ level = TRUST_PERSONAL => RatEq(trust_weight(r), <<1, 1>>)
               /\ level = TRUST_CURATED => RatEq(trust_weight(r), <<1, 2>>)
               /\ level = TRUST_WEB => RatEq(trust_weight(r), <<1, 3>>)
               /\ weighted_score(r)[1] * r.similarity_score[2] * level
                    = r.similarity_score[1] * weighted_score(r)[2]

\* C8 witness: a returned result of a curated document (weight 1/2) that is
\* still in the store
C8_Witness ==
    /\ pc = "done"
    /\ \E i \in DOMAIN results :
          /\ results[i].chunk.source_id \in DOMAIN sources
          /\ sources[results[i].chunk.source_id].trust_level = TRUST_CURATED
          /\ RatEq(weighted_score(results[i]), <<DistScale, 2 * (DistScale + 1)>>)

\* C9: with a trust filter every result belongs to a document whose
\* trust_level is at most the filter value; without one, no hit whose fragment
\* and document were found is dropped.
C9_TrustFilter ==
    [][/\ (pc' # "idle" /\ args'.trust_level # None) =>
             \A i \in DOMAIN results' :
                 /\ results'[i].source.trust_level <= args'.trust_level.value
                 /\ results'[i].chunk.source_id \in DOMAIN sources' =>
                       sources'[results'[i].chunk.source_id].trust_level
                           <= args'.trust_level.value
       /\ (/\ LoopStep /\ pc = "get_source"
           /\ args.trust_level = None
           /\ chunk.source_id \in DOMAIN sources) =>
             /\ Len(results') = Len(results) + 1
             /\ results'[Len(results')].chunk = chunk
      ]_vars

\* C9 witness: a filtered search has returned a result, and a hit of a less
\* trusted document that is still in the store was dropped
C9_Witness ==
    /\ pc = "done"
    /\ args.trust_level # None
    /\ Len(results) >= 1
    /\ \E i \in DOMAIN raw_results :
          LET c == raw_results[i].chunk_id
          IN /\ c \in DOMAIN knowledge_chunks
             /\ knowledge_chunks[c].source_id \in DOMAIN sources
             /\ sources[knowledge_chunks[c].source_id].trust_level > args.trust_level.value
             /\ \A j \in DOMAIN results : results[j].chunk.chunk_id # c

\* C10: when source_ids is supplied, every returned result's document id is in
\* the supplied set, for every supplied set including the empty one.
C10_SourceIdFilter ==
    (pc = "done" /\ raised = "" /\ args.source_ids # None) =>
        \A i \in DOMAIN results : results[i].source.id \in args.source_ids.value

\* ------------------------------------------------------- document lifecycle
\* the edges of the lifecycle as the design draws it
LifecycleEdges ==
    {<<"pending", "processing">>, <<"processing", "indexed">>,
     <<"processing", "failed">>, <<"indexed", "changed">>, <<"indexed", "failed">>}

\* C17 (as claimed): a document's status only ever changes along the lifecycle:
\* a new document is pending, and a status changes only from pending to
\* processing, from processing to indexed or failed, and - by verify - from
\* indexed to changed or failed.
C17_StatusFollowsLifecycle ==
    [][\A s \in DOMAIN sources' :
         IF s \in DOMAIN sources
         THEN \/ sources'[s].status = sources[s].status
              \/ <<sources[s].status, sources'[s].status>> \in LifecycleEdges
         ELSE sources'[s].status = "pending"
      ]_vars

\* C17 (amended): register creates the document as pending;
\* update_source_status(doc, st) sets the status to st whatever the status was
\* (no transition is refused); verify sets the status of a document in any
\* status to failed (file missing) or changed (hash differs) and leaves it alone
\* when the file is unchanged; and a status changes in no other operation.
C17_StatusAsWritten ==
    [][\A s \in DOMAIN sources' :
         IF s \in DOMAIN sources
         THEN /\ \A a \in StatusArgs :
                    update_source_status(s, a[1], a[2], a[3]) => sources'[s].status = a[1]
              /\ verify_source(s, "missing") => sources'[s].status = "failed"
              /\ verify_source(s, "modified") => sources'[s].status = "changed"
              /\ verify_source(s, "same") => sources'[s].status = sources[s].status
              /\ sources'[s].status # sources[s].status =>
                    \/ \E a \in StatusArgs : update_source_status(s, a[1], a[2], a[3])
                    \/ \E f \in {"missing", "modified"} : verify_source(s, f)
         ELSE sources'[s].status = "pending"
      ]_vars

\* C17 witness: a document that was marked failed by the ingestion ("Parse
\* error") and then found modified by verify: changed, from failed
C17_Witness ==
    \E s \in DOMAIN sources :
        /\ sources[s].status = "changed"
        /\ sources[s].error_message = "Parse error"
        /\ sources[s].last_verified = "now"

\* C18: verify_source on a missing file returns False and leaves the document
\* failed with an error message that contains "not found"; on a file whose hash
\* differs from the stored one it returns False and leaves the document changed.
C18_VerifyReportsDrift ==
    [][\A s \in DOMAIN sources :
         /\ verify_source(s, "missing") =>
                /\ verify_result' = Some(FALSE)
                /\ sources'[s].status = "failed"
                /\ Occurrences(sources'[s].error_message, "not found") # {}
         /\ verify_source(s, "modified") =>
                /\ verify_result' = Some(FALSE)
                /\ sources'[s].status = "changed"
      ]_vars

\* C18 witness: verify_source returned False for a document whose file is gone
C18_Witness ==
    /\ verify_result = Some(FALSE)
    /\ \E s \in DOMAIN sources :
            /\ sources[s].status = "failed"
            /\ sources[s].error_message = "File not found"

\* C19: verify_source on a file whose hash equals the stored one returns True,
\* sets last_verified and changes nothing else: no other field of the row, no
\* other row, no chunk row, no entry of the vector index.
C19_VerifyUnchangedFrame ==
    [][\A s \in DOMAIN sources :
         verify_source(s, "same") =>
            /\ verify_result' = Some(TRUE)
            /\ sources'[s].last_verified = "now"
            /\ sources' = [sources EXCEPT ![s].last_verified = "now"]
            /\ UNCHANGED <<knowledge_chunks, collection, next_source_id, next_uuid>>
      ]_vars

\* C19 witness: verify_source returned True for an indexed document, which is
\* still indexed and now carries last_verified
C19_Witness ==
    /\ verify_result = Some(TRUE)
    /\ \E s \in DOMAIN sources :
            /\ sources[s].status = "indexed"
            /\ sources[s].last_verified = "now"
            /\ sources[s].chunk_count = MaxBatch

\* C20: no verify_source call moves a changed document to indexed, whatever
\* the file looks like (also when its hash matches the stored one again); a
\* changed document becomes indexed only in update_source_status(doc, "indexed").
C20_DriftNeverHealed ==
    [][\A s \in DOMAIN sources \cap DOMAIN sources' :
         sources[s].status = "changed" =>
            /\ \A f \in FileStates :
                    verify_source(s, f) => sources'[s].status # "indexed"
            /\ sources'[s].status = "indexed" =>
                    \E n \in 0..MaxBatch : update_source_status(s, "indexed", n, "")
      ]_vars

\* C20 witness: the only document is changed, and the last verify_source call
\* found its file equal to the stored hash
C20_Witness ==
    /\ verify_result = Some(TRUE)
    /\ DOMAIN sources = {1}
    /\ sources[1].status = "changed"
    /\ sources[1].last_verified = "now"

\* ------------------------------------------------------------------ chunker
\* chunk_text has returned
Returned == chunk_pc = "returned"

\* the whitespace-separated tokens of s, in order
Words(s) ==
    LET ink(i) == At(s, i) \notin Whitespace
        spans == InOrder({<<i, SetMin({e \in (i + 1)..Len(s) : e = Len(s) \/ ~ink(e)})>> :
                            i \in {i \in 0..(Len(s) - 1) : ink(i) /\ (i = 0 \/ ~ink(i - 1))}})
    IN  [k \in DOMAIN spans |-> Slice(s, spans[k][1], spans[k][2])]

\* a[i..] can be read off b[j..] from left to right, skipping elements of b
RECURSIVE IsSubsequence(_, _, _, _)
IsSubsequence(a, i, b, j) ==
    IF i > Len(a) THEN TRUE
    ELSE IF j > Len(b) THEN FALSE
    ELSE IF a[i] = b[j] THEN IsSubsequence(a, i + 1, b, j + 1)
    ELSE IsSubsequence(a, i, b, j + 1)

\* the returned chunks' contents, one after the other
AllContent == Join([i \in DOMAIN text_chunks |-> text_chunks[i].content], " ")

\* C11: every whitespace-separated token of the input text appears, in the
\* order of the text, among the tokens of the returned chunks' contents read
\* one after the other: overlap may add tokens, nothing is dropped.
C11_NoTokenDropped ==
    Returned => IsSubsequence(Words(chunk_args.text), 1, Words(AllContent), 1)

\* C11 witness: a text of three words or more came back as two chunks or more
\* whose contents hold more tokens than the text (the overlap repeats some)
C11_Witness ==
    /\ Returned
    /\ Len(Words(chunk_args.text)) >= 3
    /\ Len(text_chunks) >= 2
    /\ Len(Words(AllContent)) > Len(Words(chunk_args.text))

\* C12: the returned chunks carry chunk_index 0, 1, ..., N-1 in list order.
C12_OrdinalsContiguous ==
    Returned => \A i \in DOMAIN text_chunks : text_chunks[i].chunk_index = i - 1

\* C12 witness: the repair passes left chunks whose chunk_index was not their
\* position (a merge took an index away, or a split repeated one)
C12_Witness ==
    /\ Returned
    /\ Len(text_chunks) >= 2
    /\ LET repaired == split_large_chunks(
                            merge_small_chunks(
                                Accumulated(chunk_args.text, chunk_args.max_tokens,
                                            chunk_args.overlap_tokens),
                                chunk_args.min_tokens),
                            chunk_args.max_tokens)
       IN  \E i \in DOMAIN repaired : repaired[i].chunk_index # i - 1

\* C13: after the merge pass every chunk has at least min_tokens tokens, unless
\* the pass leaves a single chunk.
C13_MergedChunksMeetFloor ==
    chunk_pc = "split" =>
        (Len(text_chunks) > 1 =>
            \A i \in DOMAIN text_chunks :
                text_chunks[i].token_count >= chunk_args.min_tokens)

\* C14: a returned chunk of more than max_tokens tokens is a single sentence,
\* a run of text without a sentence boundary in it.
C14_OversizeOnlySingleSentence ==
    Returned =>
        \A i \in DOMAIN text_chunks :
            text_chunks[i].token_count > chunk_args.max_tokens =>
                Len(split_into_sentences(text_chunks[i].content)) = 1

\* C16: an empty or whitespace-only text gives no chunk; a text of a single
\* word gives exactly one chunk, whose content contains the word.
C16_EmptyAndSingleWord ==
    Returned =>
        /\ strip(chunk_args.text) = "" => text_chunks = <<>>
        /\ Len(Words(chunk_args.text)) = 1 =>
                /\ Len(text_chunks) = 1
                /\ Occurrences(text_chunks[1].content, Words(chunk_args.text)[1]) # {}

\* C16 witness: the single word "Hello" came back as one chunk
C16_Witness ==
    /\ Returned
    /\ chunk_args.text = "Hello"
    /\ Len(text_chunks) = 1
    /\ text_chunks[1].content = "Hello"

\* the document of the scenario, chunked with max_tokens = 200
IntroScenario ==
    /\ Returned
    /\ chunk_args.text = IntroDocument(500)
    /\ chunk_args.max_tokens = 200

\* C15 (as claimed): the document "# Intro", a blank line and 500 times "word "
\* chunked with max_tokens = 200 gives more than one chunk, and every chunk but
\* the last carries the section "Intro".
C15_IntroScenarioAsClaimed ==
    IntroScenario =>
        /\ Len(text_chunks) > 1
        /\ \A i \in 1..(Len(text_chunks) - 1) : text_chunks[i].page_or_section = "Intro"

\* C15 (amended): with max_tokens = 200 and the default min_tokens = 300 the
\* document comes back as one chunk, the whole text, of 627 tokens and without a
\* section label; with min_tokens = 0 it comes back as two chunks, the heading
\* line without a label and the 500 words, unsplit, labelled "## Intro".
C15_IntroScenario ==
    IntroScenario =>
        IF chunk_args.min_tokens = MIN_CHUNK_TOKENS
        THEN /\ Len(text_chunks) = 1
             /\ text_chunks[1].content = strip(chunk_args.text)
             /\ text_chunks[1].token_count = 627
             /\ text_chunks[1].page_or_section = ""
        ELSE /\ Len(text_chunks) = 2
             /\ text_chunks[1].content = "# Intro"
             /\ text_chunks[1].page_or_section = ""
             /\ text_chunks[2].content = strip(Repeat("word ", 500))
             /\ text_chunks[2].token_count > chunk_args.max_tokens
             /\ text_chunks[2].page_or_section = "## Intro"

\* C15 witness: the scenario with the defaults of chunk_text, back as one chunk
C15_Witness ==
    /\ IntroScenario
    /\ chunk_args.file_type = "md"
    /\ chunk_args.min_tokens = MIN_CHUNK_TOKENS
    /\ chunk_args.overlap_tokens = OVERLAP_TOKENS
    /\ Len(text_chunks) = 1

\* ------------------------------------------------ deleting and re-indexing
\* no chunk row names a document that is not in the store
NoOrphanChunks ==
    \A c \in DOMAIN knowledge_chunks : knowledge_chunks[c].source_id \in DOMAIN sources

\* C21: delete_source(doc) removes the document row and every chunk row of it
\* in one step: in no state is a document gone while chunk rows of it remain,
\* the call returns True exactly if the document existed, and after it no
\* chunk row names the document; the rows of other documents stay.
C21_DeleteIsAtomic ==
    [][/\ NoOrphanChunks'
       /\ \A s \in SourceIds :
            delete_source(s) =>
                /\ delete_result' = Some(s \in DOMAIN sources)
                /\ s \notin DOMAIN sources'
                /\ ChunkIdsOf(s)' = {}
                /\ sources' = Without(sources, {s})
                /\ knowledge_chunks' = Without(knowledge_chunks, ChunkIdsOf(s))
      ]_vars

\* C21 witness: the last delete_source call returned True, a document and its
\* two chunk rows are gone, and the other document still has a chunk row
C21_Witness ==
    /\ delete_result = Some(TRUE)
    /\ DOMAIN sources = {2}
    /\ next_uuid > MaxRows
    /\ Cardinality(ChunkIdsOf(2)) = 1

\* C21 witness of the other answer: delete_source returned False for an id
\* that names no document, and the store still holds a document with a chunk
C21_WitnessNotFound ==
    /\ delete_result = Some(FALSE)
    /\ \E s \in DOMAIN sources : ChunkIdsOf(s) # {}

\* C22: delete_source(doc) leaves the vector index as it is: the vectors of the
\* document's chunks stay until delete_source_embeddings(doc) is called; that
\* call removes exactly the entries whose metadata names doc, leaves the entries
\* of every other document and leaves the relational store alone; and no entry
\* leaves the index in any other way.
C22_DeleteLeavesIndex ==
    [][\A s \in SourceIds :
         /\ delete_source(s) => collection' = collection
         /\ delete_source_embeddings(s) =>
                /\ DOMAIN collection' =
                        {c \in DOMAIN collection : collection[c].source_id # s}
                /\ \A c \in DOMAIN collection' : collection'[c] = collection[c]
                /\ UNCHANGED <<sources, knowledge_chunks>>
         /\ \A c \in DOMAIN collection \ DOMAIN collection' :
                collection[c].source_id = s => delete_source_embeddings(s)
      ]_vars

\* C22 witness: a document was deleted, its vector is still in the index next
\* to the vector of a document that is still in the store
C22_Witness ==
    /\ delete_result = Some(TRUE)
    /\ \E c, d \in DOMAIN collection :
            /\ collection[c].source_id \notin DOMAIN sources
            /\ c \notin DOMAIN knowledge_chunks
            /\ collection[d].source_id \in DOMAIN sources

\* C23: in every state of the relational store the chunk rows of each document
\* carry the ordinals 0..n-1, each once, n being the number of its rows; also
\* after the document was ingested again.
C23_OrdinalsDense ==
    \A s \in DOMAIN sources :
        LET rows == ChunkIdsOf(s)
        IN  /\ {knowledge_chunks[c].chunk_index : c \in rows} = 0..(Cardinality(rows) - 1)
            /\ \A c, d \in rows :
                    knowledge_chunks[c].chunk_index = knowledge_chunks[d].chunk_index => c = d

\* C23 witness: the only document ever created was ingested twice, with two
\* chunks each time, and holds the rows of the second run
C23_Witness ==
    /\ next_source_id = 2
    /\ next_uuid = 5
    /\ ChunkIdsOf(1) = {3, 4}
    /\ knowledge_chunks[3].chunk_index = 0
    /\ knowledge_chunks[4].chunk_index = 1

\* C24: a chunk row, once created, keeps its content and its external key:
\* every step leaves each row that is in the store before and after it exactly
\* as it was, a new row gets a key that no row ever had, and the steps of a
\* search change no row at all (a search fills only the fields of its own
\* result objects).
C24_ChunkRowsImmutable ==
    [][/\ \A c \in DOMAIN knowledge_chunks \cap DOMAIN knowledge_chunks' :
            knowledge_chunks'[c] = knowledge_chunks[c]
       /\ \A c \in DOMAIN knowledge_chunks' \ DOMAIN knowledge_chunks : c >= next_uuid
       /\ next_uuid' >= next_uuid
       /\ searchVars' # searchVars => knowledge_chunks' = knowledge_chunks
      ]_vars

\* C24 witness: a search has returned a result whose content is that of the
\* chunk row, which is still in the store
C24_Witness ==
    /\ pc = "done"
    /\ \E i \in DOMAIN results :
            /\ results[i].chunk.chunk_id \in DOMAIN knowledge_chunks
            /\ knowledge_chunks[results[i].chunk.chunk_id].content = results[i].chunk.content
            /\ results[i].source # None

\* ------------------------------------------------- ordinals and embeddings
\* position of row c among the rows of its document, in the order save_chunks
\* inserted them
PositionInDocument(c) ==
    Cardinality({d \in ChunkIdsOf(knowledge_chunks[c].source_id) : d < c})

\* C25: the ordinal of a chunk is its position in the list save_chunks was
\* given, it is in the row before the first embedding is asked for, no step of
\* the indexing (an embedding that arrives, one that fails after any number of
\* others, collection.add) touches a row, and what collection.add records for
\* a chunk whose row exists is the row's ordinal
C25_OrdinalsBeforeEmbedding ==
    [][/\ \A c \in DOMAIN knowledge_chunks' :
            knowledge_chunks'[c].chunk_index =
                Cardinality({d \in DOMAIN knowledge_chunks' :
                    /\ knowledge_chunks'[d].source_id = knowledge_chunks'[c].source_id
                    /\ d < c})
       /\ \A c \in DOMAIN collection' \cap DOMAIN knowledge_chunks' :
            collection'[c].chunk_index = knowledge_chunks'[c].chunk_index
       /\ \A i \in DOMAIN index_chunks' : index_chunks'[i].chunk_index = i - 1
       /\ (index_pc = "embedding" /\ http_requests' # http_requests) =>
            /\ knowledge_chunks' = knowledge_chunks
            /\ collection' = collection
       /\ (index_pc = "embedding" /\ index_pc' = "idle") =>
            /\ knowledge_chunks' = knowledge_chunks
            /\ IF embed_raised' = "" /\ http_requests' = http_requests
               THEN DOMAIN collection' \ DOMAIN collection =
                        {index_chunks[i].chunk_id : i \in DOMAIN index_chunks}
               ELSE collection' = collection
      ]_vars

\* a document of two chunks is in the index with ordinals 0 and 1, its two
\* embeddings having arrived one after the other
C25_Witness ==
    /\ embed_raised = ""
    /\ http_requests = 2
    /\ index_pc = "idle"
    /\ \E c, d \in DOMAIN collection \cap DOMAIN knowledge_chunks :
            /\ knowledge_chunks[c].source_id = knowledge_chunks[d].source_id
            /\ collection[c].chunk_index = 0
            /\ collection[d].chunk_index = 1
            /\ PositionInDocument(d) = 1
            /\ collection[c].emb # collection[d].emb

\* C27: whatever goes wrong with a request comes out as EmbeddingError, one
\* request is made per text, and the batch makes no request after the first
\* text that fails
C27_OneErrorKindNoRetry ==
    [][/\ embed_raised' \in {"", "EmbeddingError"}
       /\ http_requests' \in {0, http_requests, http_requests + 1}
       /\ batch_pc' = "embedding" =>
            /\ embed_raised' = ""
            /\ http_requests' = Len(embeddings')
            /\ Len(embeddings') < batch_texts'
       /\ batch_pc' = "returned" =>
            /\ embed_raised' = ""
            /\ http_requests' = batch_texts'
            /\ Len(embeddings') = batch_texts'
       /\ batch_pc' = "raised" =>
            /\ embed_raised' = "EmbeddingError"
            /\ http_requests' = Len(embeddings') + 1
            /\ Len(embeddings') < batch_texts'
       /\ batch_pc = "raised" => http_requests' = http_requests
       /\ (batch_pc = "embedding" /\ embed_raised' = "") =>
            Len(embeddings') = Len(embeddings) + 1
      ]_vars

\* a batch of three texts raised on its second text, after two requests
C27_Witness ==
    /\ batch_pc = "raised"
    /\ batch_texts = 3
    /\ Len(embeddings) = 1
    /\ http_requests = 2
    /\ embed_raised = "EmbeddingError"

\* ------------------------------------------------------------ registration
\* the last create_source call was given a path whose extension no type is
\* known for
LastCallUnsupported ==
    /\ create_path # ""
    /\ lower(PathSuffix(create_path)) \notin {".pdf", ".md", ".markdown", ".txt", ".text"}

\* C26: a registration with an unsupported extension raises ValueError
\* ("Unsupported file type") before it touches the file system, whether the
\* file is there or not, and no row is there for such a path
C26_UnsupportedBeforeAnyAccess ==
    /\ LastCallUnsupported => (create_raised = "ValueError" /\ fs_accesses = <<>>)
    /\ \A s \in DOMAIN sources :
            lower(PathSuffix(sources[s].file_path))
                \in {".pdf", ".md", ".markdown", ".txt", ".text"}

\* C26 (amended): a registration with an unsupported extension has resolved
\* the path and looked whether the file exists, and nothing more (the file is
\* not opened, hashed or measured); it raises ValueError when the file
\* exists and FileNotFoundError when it does not, as a registration of a
\* missing file does whatever its extension; no row is there for such a path
C26_UnsupportedAfterExists ==
    /\ LastCallUnsupported =>
            /\ fs_accesses = <<"resolve", "exists">>
            /\ resolve(create_path) \in files => create_raised = "ValueError"
    /\ (create_path # "" /\ resolve(create_path) \notin files) =>
            /\ fs_accesses = <<"resolve", "exists">>
            /\ create_raised = "FileNotFoundError"
    /\ create_raised # "" => (LastCallUnsupported \/ resolve(create_path) \notin files)
    /\ \A s \in DOMAIN sources :
            lower(PathSuffix(sources[s].file_path))
                \in {".pdf", ".md", ".markdown", ".txt", ".text"}

\* a registered file is on the disk next to an existing .docx whose
\* registration was refused with ValueError
C26_Witness ==
    /\ create_path = "/w/d/c.docx"
    /\ "/w/d/c.docx" \in files
    /\ create_raised = "ValueError"
    /\ sources # << >>

\* the .docx is not on the disk and its registration raised FileNotFoundError
C26_WitnessMissing ==
    /\ create_path = "/w/d/c.docx"
    /\ "/w/d/c.docx" \notin files
    /\ create_raised = "FileNotFoundError"

\* ---------------------------------------------------------------- discovery
\* file f lies in the directory or below it
Under(directory, f) ==
    /\ Len(f) > Len(resolve(directory)) + 1
    /\ SubSeq(f, 1, Len(resolve(directory)) + 1) = resolve(directory) \o "/"

\* the files whose resolved path the returned list holds
Discovered == {resolve(p) : p \in DOMAIN new_files.value}

\* what a discovery returns, for the extensions in Exts compared as Same
\* compares them
DiscoveredAre(Exts, Same(_)) ==
    Discovered = {f \in files : /\ Under(discover_dir, f)
                                 /\ Same(PathSuffix(f)) \in Exts
                                 /\ \A s \in DOMAIN sources : sources[s].file_path # f}

AsWritten(ext) == ext

\* C30: discover_new_sources returns exactly the files under the directory
\* that have an extension a document can be registered with and whose
\* resolved path is the path of no registered document
C30_DiscoverIff ==
    [][(new_files' # new_files \/ discover_dir' # discover_dir) =>
            DiscoveredAre({".pdf", ".md", ".markdown", ".txt", ".text"}, lower)'
      ]_vars

\* what it returns: the files whose extension is, letter for letter, one of
\* the three of SUPPORTED_EXTENSIONS
C30_DiscoverGlobbed ==
    [][(new_files' # new_files \/ discover_dir' # discover_dir) =>
            DiscoveredAre({".pdf", ".md", ".txt"}, AsWritten)'
      ]_vars

\* a file of the directory itself is in the returned list twice
C30_ListedTwice ==
    /\ new_files # None
    /\ \E p \in DOMAIN new_files.value : new_files.value[p] = 2

\* a .markdown file that is registered was not discovered before
C30_WitnessMarkdown ==
    /\ new_files # None
    /\ "/w/d/e.markdown" \in files
    /\ "/w/d/e.markdown" \notin Discovered
    /\ \A s \in DOMAIN sources : sources[s].file_path # "/w/d/e.markdown"

\* ------------------------------------------------------------------ answers
\* C28: when the request of query_llm fails, ask still returns: the answer is
\* the text that describes the failure, and it carries the results the context
\* was built from and the footer over them
C28_FailureIsAnAnswer ==
    llm_outcome \notin {"", "ok"} =>
        /\ pc = "answered"
        /\ Len(answer) > Len("Error: ")
        /\ SubSeq(answer, 1, Len("Error: ")) = "Error: "
        /\ sources_used = used
        /\ sources_used # <<>>
        /\ Len(citations) > 0
        /\ Cardinality(Occurrences(citations, "\n")) = Len(sources_used)
        /\ \A i \in DOMAIN sources_used :
                Contains(citations, "\n[" \o ToString(i) \o "]")

\* the request timed out and the answer says so, over two sources
C28_Witness ==
    /\ llm_outcome = "ReadTimeout"
    /\ answer = "Error: LLM request timed out. Try a shorter query or check Ollama."
    /\ Len(sources_used) = 2
    /\ pc = "answered"

\* a and b are one character, or the capital and the small form of one letter
SameLetter(a, b) ==
    \/ a = b
    \/ \E i \in 1..Len(Lowercase) :
            {a, b} = {SubSeq(Lowercase, i, i), SubSeq(Uppercase, i, i)}

\* the letters of sub are at position j of s, in either case
MatchesAt(s, sub, j) ==
    \A k \in 1..Len(sub) :
        SameLetter(SubSeq(s, j + k - 1, j + k - 1), SubSeq(sub, k, k))

\* C29: has_answer is true exactly for an answer that is not empty and holds
\* the escape phrase nowhere, in whatever case its letters are written
C29_HasAnswer ==
    pc = "answered" =>
        (has_answer(answer) <=>
            /\ Len(answer) > 0
            /\ \A j \in 1..(Len(answer) - Len("don't have enough information") + 1) :
                    ~MatchesAt(answer, "don't have enough information", j))

\* the reply holds the phrase in capitals and has_answer is false
C29_Witness ==
    /\ pc = "answered"
    /\ answer = "I DON'T HAVE ENOUGH INFORMATION"
    /\ ~has_answer(answer)

\* a paraphrase of the phrase counts as an answer
C29_WitnessParaphrase ==
    /\ pc = "answered"
    /\ answer = "I do not have enough information"
    /\ has_answer(answer)

\* --------------------------------------------------- registering a path twice
\* C31: a create_source call for a file that is there and has a known type
\* raises nothing and adds a row under a new id, also when a row with the
\* same path is in the table, and it leaves the rows of the table as they are
C31_NoDeduplication ==
    [][((create_path' # create_path \/ create_raised' # create_raised
            \/ next_source_id' # next_source_id)
        /\ resolve(create_path') \in files
        /\ lower(PathSuffix(create_path')) \in {".pdf", ".md", ".markdown", ".txt", ".text"})
       => /\ create_raised' = ""
          /\ next_source_id \notin DOMAIN sources
          /\ DOMAIN sources' = DOMAIN sources \cup {next_source_id}
          /\ sources'[next_source_id].file_path = resolve(create_path')
          /\ \A s \in DOMAIN sources : sources'[s] = sources[s]
      ]_vars

\* two documents are registered under one path, which both calls were given
\* relative to the working directory
C31_Witness ==
    /\ create_path = "d/a.md"
    /\ create_raised = ""
    /\ \E s, t \in DOMAIN sources :
            /\ s # t
            /\ sources[s].file_path = "/w/d/a.md"
            /\ sources[t].file_path = "/w/d/a.md"

\* ------------------------------------------------- the seed of the next chunk
\* the paragraphs the loop of the running call goes over
LoopParagraphs ==
    IF split_into_paragraphs(chunk_args.text) = <<>>
    THEN <<<<strip(chunk_args.text), 0>>>>
    ELSE split_into_paragraphs(chunk_args.text)

\* the loop's variables after its first k paragraphs
LoopStateAfter(k) ==
    AccumulateLoop(chunk_args.text, SubSeq(LoopParagraphs, 1, k), 1,
                   [chunks |-> <<>>, chunk_index |-> 0,
                    current_chunk_text |-> "", current_chunk_start |-> 0],
                   chunk_args.max_tokens, CHARS_PER_TOKEN * chunk_args.overlap_tokens)

\* the paragraphs at which the loop finalized the running chunk
FinalizedAt ==
    {k \in 1..Len(LoopParagraphs) :
        Len(LoopStateAfter(k).chunks) = Len(LoopStateAfter(k - 1).chunks) + 1}

\* the last n characters of s, all of s if it has no more
LastChars(s, n) == IF n >= Len(s) THEN s ELSE SubSeq(s, Len(s) - n + 1, Len(s))

\* the accumulation pass of a text that is not blank is over
AccumulationOver == chunk_pc = "merge"

\* C32: wherever the loop finalized a chunk, the text of the next chunk
\* begins with the last overlap_tokens * 4 characters of the finalized text
\* (all of it if it is shorter) and goes on to the new paragraph
C32_SeededWithOverlap ==
    AccumulationOver =>
        \A k \in FinalizedAt :
            LET cur == LoopStateAfter(k - 1).current_chunk_text
                next_text == LoopStateAfter(k).current_chunk_text
                seed == LastChars(cur, CHARS_PER_TOKEN * chunk_args.overlap_tokens)
                para_text == LoopParagraphs[k][1]
            IN  /\ Len(next_text) >= Len(seed) + Len(para_text)
                /\ SubSeq(next_text, 1, Len(seed)) = seed
                /\ SubSeq(next_text, Len(next_text) - Len(para_text) + 1, Len(next_text))
                        = para_text

\* C32 (amended): wherever the loop finalized a chunk whose text is longer
\* than overlap_tokens * 4 characters, and overlap_tokens is not 0, the next
\* chunk is the last overlap_tokens * 4 characters of that text, a blank line
\* and the new paragraph, and it starts that many characters before the
\* paragraph; after a finalized text of that length or shorter the next
\* chunk is the new paragraph alone and starts where the paragraph starts
C32_SeededWhenLonger ==
    AccumulationOver =>
        \A k \in FinalizedAt :
            LET cur == LoopStateAfter(k - 1).current_chunk_text
                after == LoopStateAfter(k)
                n == CHARS_PER_TOKEN * chunk_args.overlap_tokens
                para_text == LoopParagraphs[k][1]
                para_start == LoopParagraphs[k][2]
            IN  IF n > 0 /\ Len(cur) > n
                THEN /\ after.current_chunk_text
                            = SubSeq(cur, Len(cur) - n + 1, Len(cur)) \o "\n\n" \o para_text
                     /\ after.current_chunk_start = para_start - n
                ELSE /\ after.current_chunk_text = para_text
                     /\ after.current_chunk_start = para_start

\* a chunk of seven characters was finalized and the next one starts with
\* its last four
C32_Witness ==
    /\ AccumulationOver
    /\ chunk_args.overlap_tokens = 1
    /\ \E k \in FinalizedAt :
            /\ LoopStateAfter(k - 1).current_chunk_text = "bbbbbb."
            /\ LoopStateAfter(k).current_chunk_text = "bbb.\n\naaaa"

\* a chunk of four characters was finalized and the next one starts with
\* nothing of it
C32_WitnessShort ==
    /\ AccumulationOver
    /\ chunk_args.overlap_tokens = 1
    /\ \E k \in FinalizedAt :
            /\ LoopStateAfter(k - 1).current_chunk_text = "aaaa"
            /\ LoopStateAfter(k).current_chunk_text = "bbbbbb."

\* ------------------------------------------------------ the label of a chunk
\* the text find_section_context searches for a page marker: the up to 500
\* characters that end where the chunk starts
WindowBefore(c) ==
    SubSeq(chunk_args.text, IF c.start_char > 500 THEN c.start_char - 499 ELSE 1,
           c.start_char)

\* where the marker that opens at position i closes
MarkerEnd(text, i) ==
    CHOOSE j \in (i + 7)..(Len(text) - 1) :
        /\ At(text, j) = "]"
        /\ \A k \in (i + 6)..(j - 1) : At(text, k) # "]"

\* the page markers in the text: where each opens, and its label
MarkerLabels(text) ==
    {<<i, "p." \o SubSeq(text, i + 7, MarkerEnd(text, i))>> : i \in PageMarkers(text)}

\* the last heading before the chunk's start, however far back, as a label;
\* "" if there is none
HeadingBefore(c) ==
    LET hs == HeadingsFrom(SubSeq(chunk_args.text, 1, c.start_char), 0)
    IN  IF hs = <<>> THEN "" ELSE "## " \o hs[Len(hs)]

\* the chunk's label is what the text before its start gives: a page label
\* when a marker is in the window, else the last heading, else none
LabelledByStart(c) ==
    LET ms == MarkerLabels(WindowBefore(c))
    IN  IF ms # {}
        THEN c.page_or_section \in {m[2] : m \in ms}
        ELSE c.page_or_section = HeadingBefore(c)

\* the chunks are as the accumulation pass or the merge pass left them
BeforeSplitting == chunk_pc \in {"merge", "split"}

\* C33: every returned chunk's label is a page label when a page marker lies
\* in the 500 characters before the chunk's start, a nearer heading or not,
\* and otherwise the last heading before the chunk's start, however far back
C33_LabelOfReturned ==
    Returned => \A i \in DOMAIN text_chunks : LabelledByStart(text_chunks[i])

\* C33 (amended): the same of every chunk as the accumulation pass finalizes
\* it and as the merge pass leaves it (a merged chunk keeps the start and the
\* label of its first part); the sentence split that follows hands the label
\* of a chunk to each of its parts and looks at no text again
C33_LabelOfFinalized ==
    /\ BeforeSplitting => \A i \in DOMAIN text_chunks : LabelledByStart(text_chunks[i])
    /\ chunk_pc \in {"reindex", "returned"} =>
            {text_chunks[i].page_or_section : i \in DOMAIN text_chunks}
                \subseteq {c.page_or_section :
                              c \in Range(merge_small_chunks(
                                        Accumulated(chunk_args.text, chunk_args.max_tokens,
                                                    chunk_args.overlap_tokens),
                                        chunk_args.min_tokens))}

\* a chunk with a page marker 15 characters back and a heading nearer to it
\* is labelled with the page
C33_Witness ==
    /\ BeforeSplitting
    /\ chunk_args.text = "[PAGE 1]\n\n## Part\n\ncccc"
    /\ \E i \in DOMAIN text_chunks :
            /\ text_chunks[i].content = "cccc"
            /\ text_chunks[i].page_or_section = "p.1"

\* a chunk whose only page marker and heading are more than 600 characters
\* back is labelled with the heading
C33_WitnessHeading ==
    /\ BeforeSplitting
    /\ \E i \in DOMAIN text_chunks :
            /\ text_chunks[i].content = "cccc"
            /\ text_chunks[i].start_char > 600
            /\ PageMarkers(chunk_args.text) # {}
            /\ text_chunks[i].page_or_section = "## Part"

\* a part cut from a chunk that starts the document has the page marker of
\* that chunk before it and no label
C33_WitnessSplit ==
    /\ Returned
    /\ \E i \in DOMAIN text_chunks :
            /\ text_chunks[i].content = "bbbb."
            /\ text_chunks[i].page_or_section = ""
            /\ PageMarkers(WindowBefore(text_chunks[i])) # {}

\* ------------------------------------------------- several markers in reach
\* C34: a chunk with several page markers in the 500 characters before its
\* start is labelled with the last of them, the one nearest to its start
C34_NearestMarker ==
    BeforeSplitting =>
        \A i \in DOMAIN text_chunks :
            LET ms == MarkerLabels(WindowBefore(text_chunks[i]))
            IN  Cardinality(ms) > 1 =>
                    text_chunks[i].page_or_section
                        = (CHOOSE m \in ms : \A o \in ms : o[1] <= m[1])[2]

\* ------------------------------------------------ verify after re-ingestion
\* C35: when a document whose file no longer has the stored hash is marked
\* indexed (its re-ingestion has succeeded), a verify of the file as it is on
\* the disk at that moment finds it unchanged: it returns True and leaves the
\* status indexed
C35_UnchangedAfterReingest ==
    [][\A s \in DOMAIN sources \cap DOMAIN sources' :
            (/\ sources[s].status # "indexed"
             /\ sources'[s].status = "indexed"
             /\ FileState(s) = "modified")
            => /\ VerifyReturn(FileState(s)')
               /\ VerifyUpdate(sources'[s], FileState(s)').status = "indexed"
      ]_vars

\* ------------------------------------------------------ a batch in the index
\* the chunk_ids of the chunks the running add_chunks_to_vectorstore call
\* was handed
BatchKeys == {index_chunks[i].chunk_id : i \in DOMAIN index_chunks}

\* C36: while add_chunks_to_vectorstore runs, no chunk_id of its chunks is in
\* the collection; a call that an embedding's failure or a chunk without
\* chunk_id ends leaves the collection as it was; a call that ends without
\* either adds, for every chunk, one entry under the chunk's chunk_id with the
\* chunk's source_id and the embedding obtained for that chunk, and nothing else
C36_AllOrNothing ==
    [][/\ index_pc' = "embedding" => BatchKeys' \cap DOMAIN collection' = {}
       /\ (index_pc = "embedding" /\ index_pc' = "idle" /\ embed_raised' # "") =>
            collection' = collection
       /\ (index_pc = "embedding" /\ index_pc' = "idle" /\ embed_raised' = "") =>
            /\ NoChunkId \notin BatchKeys
            /\ Cardinality(BatchKeys) = Len(index_chunks)
            /\ DOMAIN collection' = DOMAIN collection \cup BatchKeys
            /\ \A c \in DOMAIN collection : collection'[c] = collection[c]
            /\ \A i \in DOMAIN index_chunks :
                    /\ collection'[index_chunks[i].chunk_id].source_id
                            = index_chunks[i].source_id
                    /\ collection'[index_chunks[i].chunk_id].emb = embeddings[i]
      ]_vars

\* the call for a document of two chunks failed on its second embedding and
\* the collection holds nothing
C36_Witness ==
    /\ index_pc = "idle"
    /\ embed_raised = "EmbeddingError"
    /\ http_requests = 2
    /\ collection = << >>
    /\ knowledge_chunks # << >>

\* the call was left at a second chunk that has no chunk_id, after one
\* embedding, and the collection holds nothing
C36_WitnessMissingKey ==
    /\ index_pc = "idle"
    /\ embed_raised = "ValueError"
    /\ http_requests = 1
    /\ collection = << >>

\* the call for a document of two chunks succeeded
C36_WitnessAdded ==
    /\ index_pc = "idle"
    /\ embed_raised = ""
    /\ http_requests = 2
    /\ Cardinality(DOMAIN collection) = 2

\* ------------------------------------------------ answers nobody generated
\* C37: an answer ask returns has has_answer true only if the request of
\* query_llm succeeded over at least one used source: not for the fixed reply
\* given without context, and not for a text that describes a failed request
C37_OnlyGeneratedAnswers ==
    (pc = "answered" /\ has_answer(answer)) =>
        /\ llm_outcome = "ok"
        /\ sources_used # <<>>
        /\ answer # NoSourcesReply

\* ------------------------------------------------- the offsets of a chunk
\* C38: every returned chunk starts at or after the start of the text, ends
\* after its start, and ends at or before the end of the text
C38_OffsetsInText ==
    Returned =>
        \A i \in DOMAIN text_chunks :
            /\ 0 <= text_chunks[i].start_char
            /\ text_chunks[i].start_char < text_chunks[i].end_char
            /\ text_chunks[i].end_char <= Len(chunk_args.text)

\* ------------------------------------------------- each new file listed once
\* C39: no path is in the list discover_new_sources returns more than once,
\* be the file in the directory itself or in a directory below it
C39_EachFileOnce ==
    new_files # None =>
        \A p \in DOMAIN new_files.value : new_files.value[p] = 1

\* ------------------------------------------------------ the token estimate
\* C40: the estimate for a text is the whole part of a quarter of its length
\* (for the text of the running call, and for the text of every chunk the
\* accumulation pass finalized), a number of tokens stands for four times as
\* many characters, the empty text has 0 tokens, 100 tokens are 400
\* characters, and a text of as many characters as n tokens stand for has n
C40_QuarterOfLength ==
    /\ 4 * estimate_tokens(chunk_args.text) <= Len(chunk_args.text)
    /\ Len(chunk_args.text) < 4 * estimate_tokens(chunk_args.text) + 4
    /\ AccumulationOver =>
            \A i \in DOMAIN text_chunks :
                LET length == text_chunks[i].end_char - text_chunks[i].start_char
                IN  /\ 4 * text_chunks[i].token_count <= length
                    /\ length < 4 * text_chunks[i].token_count + 4
    /\ estimate_tokens("") = 0
    /\ tokens_to_chars(100) = 400
    /\ \A n \in 0..100 :
            /\ tokens_to_chars(n) = n + n + n + n
            /\ estimate_tokens(Repeat("a", tokens_to_chars(n))) = n

\* a chunk of seven characters was finalized with an estimate of one token
C40_Witness ==
    /\ AccumulationOver
    /\ Len(chunk_args.text) % 4 # 0
    /\ \E i \in DOMAIN text_chunks :
            /\ text_chunks[i].end_char - text_chunks[i].start_char = 7
            /\ text_chunks[i].token_count = 1

====
